---- MODULE Spec2Model ----
(***************************************************************************)
(* Entity name-to-ID resolution with a TTL cache (LinearService /          *)
(* LinearEntityResolver) and the issue operations composed from it.        *)
(*                                                                         *)
(* Text is modelled as a sequence of one-character strings, so that        *)
(* toLowerCase, the UUID pattern and the cache-key templates are computed  *)
(* character by character as the code computes them.                       *)
(***************************************************************************)
EXTENDS Integers, Sequences, FiniteSets, TLC

VARIABLES
    now,          \* Date.now(), in milliseconds
    remote,       \* the remote catalog: which version of it is live
    cache,        \* LinearService.cache       : key -> value
    cacheExpiry,  \* LinearService.cacheExpiry : key -> expiry time
    wlog,         \* history: key -> [at, value] of the last setCache on key
    calls,        \* the current (or last) resolve call of each caller
    started,      \* number of resolve calls started so far
    focus,        \* the entity kind the callers of this run resolve
    msg,          \* the current (or last) createResolutionError call
    op,           \* the current (or last) createIssue / updateIssue call
    env,          \* process.env: DEFAULT_PROJECT_ID, API_KEY
    traces,       \* the traces collection of the store, by document id
    tasks         \* the requests and calls that work on traces

vars == <<now, remote, cache, cacheExpiry, wlog, calls, started, focus, msg, op, env, traces, tasks>>

-----------------------------------------------------------------------------
(* Bounds of the model *)

MaxTicks == 2
MaxStarts == 2

(* The largest number of entities of one kind in the remote catalog. *)
MaxCatalog == 12

-----------------------------------------------------------------------------
(* Text literals *)

S_team == <<"t","e","a","m">>
S_user == <<"u","s","e","r">>
S_project == <<"p","r","o","j","e","c","t">>
S_state == <<"s","t","a","t","e">>
S_global == <<"g","l","o","b","a","l">>
S_colon == <<":">>
S_all_ == <<"a","l","l","_">>
S_s == <<"s">>
S_quote == <<" ","'">>
S_notFound == <<"'"," ","n","o","t"," ","f","o","u","n","d",".">>
S_Available == <<" ","A","v","a","i","l","a","b","l","e"," ">>
S_sColon == <<"s",":"," ">>
S_commaSpace == <<","," ">>
S_and == <<" ","a","n","d"," ">>
S_more == <<" ","m","o","r","e">>
S_Unable == <<" ","U","n","a","b","l","e"," ","t","o"," ","f","e","t","c","h"," ","a","v","a","i","l","a","b","l","e"," ">>
S_sDot == <<"s",".">>
S_open == <<" ","(">>
S_close == <<")">>
S_FixBug == <<"F","i","x"," ","b","u","g">>
S_cursor == <<"c","u","r","s","o","r">>
S_NonExistentTeam == <<"N","o","n","E","x","i","s","t","e","n","t","T","e","a","m">>
S_IssueNotFound == <<"I","s","s","u","e"," ","n","o","t"," ","f","o","u","n","d">>
S_FailedCreate == <<"F","a","i","l","e","d"," ","t","o"," ","c","r","e","a","t","e"," ","i","s","s","u","e">>
S_FailedUpdate == <<"F","a","i","l","e","d"," ","t","o"," ","u","p","d","a","t","e"," ","i","s","s","u","e">>
S_NetworkError == <<"N","e","t","w","o","r","k"," ","e","r","r","o","r">>
S_RateLimit == <<"R","a","t","e"," ","l","i","m","i","t"," ","e","x","c","e","e","d","e","d">>

UUID_1 == <<"a","a","a","a","a","a","a","a","-","0","0","0","0","-","4","0","0","0","-","8","0","0","0","-","0","0","0","0","0","0","0","0","0","0","0","1">>
UUID_1_UPPER == <<"A","A","A","A","A","A","A","A","-","0","0","0","0","-","4","0","0","0","-","8","0","0","0","-","0","0","0","0","0","0","0","0","0","0","0","1">>
UUID_2 == <<"b","b","b","b","b","b","b","b","-","0","0","0","0","-","4","0","0","0","-","8","0","0","0","-","0","0","0","0","0","0","0","0","0","0","0","2">>
UUID_NONE == <<"c","c","c","c","c","c","c","c","-","0","0","0","0","-","4","0","0","0","-","8","0","0","0","-","0","0","0","0","0","0","0","0","0","0","0","3">>
NOT_UUID == <<"a","a","a","a","a","a","a","a","-","0","0","0","0","-","4","0","0","0","-","8","0","0","0","-","0","0","0","0","0","0","0","0","0","0","0","g">>

S_Engineering == <<"E","n","g","i","n","e","e","r","i","n","g">>
S_engineering == <<"e","n","g","i","n","e","e","r","i","n","g">>
S_ENGINEERING == <<"E","N","G","I","N","E","E","R","I","N","G">>
S_ENG == <<"E","N","G">>
S_eng == <<"e","n","g">>
S_OPS == <<"O","P","S">>
S_Ops == <<"O","p","s">>
S_Platform == <<"P","l","a","t","f","o","r","m">>
S_JohnDoe == <<"J","o","h","n"," ","D","o","e">>
S_John == <<"J","o","h","n">>
S_JOHN == <<"J","O","H","N">>
S_JD == <<"J","D">>
S_Jane == <<"J","a","n","e">>
S_mailJ == <<"j","@","x",".","i","o">>
S_MAILJ == <<"J","@","X",".","I","O">>
S_mailJane == <<"j","a","n","e","@","x",".","i","o">>
S_Backend == <<"B","a","c","k","e","n","d">>
S_BACKEND == <<"B","A","C","K","E","N","D">>
S_backend == <<"b","a","c","k","e","n","d">>
S_Legacy == <<"L","e","g","a","c","y">>
S_Todo == <<"T","o","d","o">>
S_TODO == <<"T","O","D","O">>
S_todo == <<"t","o","d","o">>
S_Done == <<"D","o","n","e">>
S_Backlog == <<"B","a","c","k","l","o","g">>

(* JavaScript's undefined for an optional string argument, and null for a  *)
(* missing entity.                                                         *)
Undefined == <<"undefined">>
Null == [null |-> TRUE]

(* Truthiness of an optional string: undefined and "" are falsy. *)
Truthy(s) == s # Undefined /\ s # <<>>

-----------------------------------------------------------------------------
(* String.prototype.toLowerCase, on the ASCII letters *)

UpperLetters == <<"A","B","C","D","E","F","G","H","I","J","K","L","M",
                  "N","O","P","Q","R","S","T","U","V","W","X","Y","Z">>
LowerLetters == <<"a","b","c","d","e","f","g","h","i","j","k","l","m",
                  "n","o","p","q","r","s","t","u","v","w","x","y","z">>

LowerOf ==
    [c \in {UpperLetters[i] : i \in 1..26} |->
        LowerLetters[CHOOSE i \in 1..26 : UpperLetters[i] = c]]

LowerChar(c) == IF c \in DOMAIN LowerOf THEN LowerOf[c] ELSE c

(* A comparison that forgot to fold case. *)
toLowerCase_Identity(s) == s

toLowerCase(s) == [i \in 1..Len(s) |-> LowerChar(s[i])]

-----------------------------------------------------------------------------
(* UUID_PATTERN = /^[0-9a-f]{8}-[0-9a-f]{4}-[0-9a-f]{4}-[0-9a-f]{4}-[0-9a-f]{12}$/i *)

HexDigits == {"0","1","2","3","4","5","6","7","8","9",
              "a","b","c","d","e","f","A","B","C","D","E","F"}

(* The pattern without its /i flag. *)
isUUID_CaseSensitive(str) ==
    /\ Len(str) = 36
    /\ \A i \in 1..36 :
          IF i \in {9, 14, 19, 24} THEN str[i] = "-"
          ELSE str[i] \in {"0","1","2","3","4","5","6","7","8","9",
                           "a","b","c","d","e","f"}

isUUID(str) ==
    /\ Len(str) = 36
    /\ \A i \in 1..36 :
          IF i \in {9, 14, 19, 24} THEN str[i] = "-" ELSE str[i] \in HexDigits

-----------------------------------------------------------------------------
(* The cache: two maps, and the TTL *)

CACHE_TTL == 5 * 60 * 1000

(* A store is the pair of maps [data |-> cache, expiry |-> cacheExpiry]. *)

(* Variants of isCacheValid with the comparison wrong. *)
isCacheValid_Flipped(st, key, t) ==
    IF key \in DOMAIN st.expiry /\ st.expiry[key] # 0
    THEN t > st.expiry[key]
    ELSE FALSE

isCacheValid_Inclusive(st, key, t) ==
    IF key \in DOMAIN st.expiry /\ st.expiry[key] # 0
    THEN t <= st.expiry[key]
    ELSE FALSE

isCacheValid(st, key, t) ==
    IF key \in DOMAIN st.expiry /\ st.expiry[key] # 0
    THEN t < st.expiry[key]
    ELSE FALSE

(* A write that leaves an entry already stored for the key alone. *)
setCache_IfAbsent(st, key, value, t) ==
    IF key \in DOMAIN st.data THEN st
    ELSE [data |-> (key :> value) @@ st.data,
          expiry |-> (key :> (t + CACHE_TTL)) @@ st.expiry]

setCache(st, key, value, t) ==
    [data   |-> (key :> value) @@ st.data,
     expiry |-> (key :> (t + CACHE_TTL)) @@ st.expiry]

MapDelete(m, key) == [k \in DOMAIN m \ {key} |-> m[k]]

(* A lookup that, on a miss, sweeps every expired entry out of the cache. *)
getCache_Sweep(st, key, t) ==
    IF isCacheValid(st, key, t)
    THEN [value |-> IF key \in DOMAIN st.data THEN st.data[key] ELSE Null,
          st    |-> st]
    ELSE LET live == {k \in DOMAIN st.expiry \ {key} : t < st.expiry[k]}
         IN  [value |-> Null,
              st    |-> [data   |-> [k \in live \cap DOMAIN st.data |-> st.data[k]],
                         expiry |-> [k \in live |-> st.expiry[k]]]]

(* getCache returns the value (or null) and, on a miss, deletes the key    *)
(* from both maps.                                                         *)
getCache_KeepExpiry(st, key, t) ==
    IF isCacheValid(st, key, t)
    THEN [value |-> IF key \in DOMAIN st.data THEN st.data[key] ELSE Null,
          st    |-> st]
    ELSE [value |-> Null,
          st    |-> [data   |-> MapDelete(st.data, key),
                     expiry |-> st.expiry]]

getCache(st, key, t) ==
    IF isCacheValid(st, key, t)
    THEN [value |-> IF key \in DOMAIN st.data THEN st.data[key] ELSE Null,
          st    |-> st]
    ELSE [value |-> Null,
          st    |-> [data   |-> MapDelete(st.data, key),
                     expiry |-> MapDelete(st.expiry, key)]]

-----------------------------------------------------------------------------
(* The remote catalog (the issue tracker, reached through the SDK client).  *)
(* A catalog holds the nodes of the four collections, in the order the      *)
(* remote returns them.  A workflow state belongs to one team.              *)

TEAM_1 == [id |-> UUID_1, name |-> S_Engineering, key |-> S_ENG]
TEAM_2 == [id |-> UUID_2, name |-> S_Ops, key |-> S_OPS]
TEAM_1_RENAMED == [id |-> UUID_1, name |-> S_Platform, key |-> S_ENG]
TEAM_2_RENAMED == [id |-> UUID_2, name |-> S_Engineering, key |-> S_OPS]

USER_1 == [id |-> UUID_1, name |-> S_JohnDoe, email |-> S_mailJ, displayName |-> S_John]
USER_2 == [id |-> UUID_2, name |-> S_Jane, email |-> S_mailJane, displayName |-> S_Jane]
USER_1_RENAMED == [id |-> UUID_1, name |-> S_JohnDoe, email |-> S_mailJ, displayName |-> S_JD]
USER_2_RENAMED == [id |-> UUID_2, name |-> S_Jane, email |-> S_mailJane, displayName |-> S_John]

PROJECT_1 == [id |-> UUID_1, name |-> S_Backend]
PROJECT_2 == [id |-> UUID_2, name |-> S_Legacy]
PROJECT_1_RENAMED == [id |-> UUID_1, name |-> S_Legacy]
PROJECT_2_RENAMED == [id |-> UUID_2, name |-> S_Backend]

STATE_1 == [id |-> UUID_1, name |-> S_Todo, type |-> "unstarted", color |-> "#e2e2e2", teamId |-> UUID_1]
STATE_2 == [id |-> UUID_2, name |-> S_Todo, type |-> "unstarted", color |-> "#e2e2e2", teamId |-> UUID_2]
STATE_1_RENAMED == [id |-> UUID_1, name |-> S_Backlog, type |-> "backlog", color |-> "#bec2c8", teamId |-> UUID_1]

CatalogV0 ==
    [team    |-> <<TEAM_1, TEAM_2>>,
     user    |-> <<USER_1, USER_2>>,
     project |-> <<PROJECT_1, PROJECT_2>>,
     state   |-> <<STATE_1, STATE_2>>]

(* Renamed and reordered: the same references now match other entities. *)
CatalogV1 ==
    [team    |-> <<TEAM_2_RENAMED, TEAM_1_RENAMED>>,
     user    |-> <<USER_2_RENAMED, USER_1_RENAMED>>,
     project |-> <<PROJECT_2_RENAMED, PROJECT_1_RENAMED>>,
     state   |-> <<STATE_2, STATE_1_RENAMED>>]

Catalogs == {CatalogV0, CatalogV1}

STATE_2_RENAMED == [id |-> UUID_2, name |-> S_Backlog, type |-> "backlog", color |-> "#bec2c8", teamId |-> UUID_2]

(* Duplicates: two teams, two users and two projects answer to the same     *)
(* name, and 'Todo' is a state of team 1 only.                              *)
CatalogV2 ==
    [team    |-> <<TEAM_2_RENAMED, TEAM_1>>,
     user    |-> <<USER_2_RENAMED, USER_1>>,
     project |-> <<PROJECT_2_RENAMED, PROJECT_1>>,
     state   |-> <<STATE_1, STATE_2_RENAMED>>]

Kinds == {"team", "user", "project", "state"}

(* client.team(id), client.user(id), client.project(id),                    *)
(* client.workflowState(id): the node with that id; the SDK rejects when    *)
(* there is none.                                                           *)
FetchById(catalog, kind, id) ==
    LET nodes == catalog[kind]
        hits  == {i \in 1..Len(nodes) : nodes[i].id = id}
    IN  IF hits = {}
        THEN [ok |-> FALSE, body |-> Null]
        ELSE [ok |-> TRUE, body |-> nodes[CHOOSE i \in hits : \A j \in hits : i <= j]]

(* client.teams(), client.users(), client.projects(),                       *)
(* client.workflowStates(): the whole collection.                           *)
FetchAll(catalog, kind) == [ok |-> TRUE, body |-> [nodes |-> catalog[kind]]]

(* team.states(): the workflow states of one team. *)
FetchTeamStates(catalog, team) ==
    LET OfTeam(s) == s.teamId = team.id
    IN  [ok |-> TRUE, body |-> [nodes |-> SelectSeq(catalog["state"], OfTeam)]]

(* A rejected promise: transport failure, malformed response. *)
Rejected == [ok |-> FALSE, body |-> Null]

-----------------------------------------------------------------------------
(* resolveTeam / resolveUser / resolveProject / resolveState                *)

(* `team:${ref}`, `user:${ref}`, `project:${ref}`,                          *)
(* `state:${ref}:${teamId || 'global'}`                                     *)
KindText(kind) ==
    CASE kind = "team" -> S_team
      [] kind = "user" -> S_user
      [] kind = "project" -> S_project
      [] kind = "state" -> S_state

cacheKey_Lowercase(kind, ref, teamId) ==
    IF kind = "state"
    THEN S_state \o S_colon \o toLowerCase(ref) \o S_colon
            \o (IF Truthy(teamId) THEN teamId ELSE S_global)
    ELSE KindText(kind) \o S_colon \o toLowerCase(ref)

cacheKey_NoContext(kind, ref, teamId) == KindText(kind) \o S_colon \o ref

cacheKey(kind, ref, teamId) ==
    IF kind = "state"
    THEN S_state \o S_colon \o ref \o S_colon
            \o (IF Truthy(teamId) THEN teamId ELSE S_global)
    ELSE KindText(kind) \o S_colon \o ref

(* The predicates handed to nodes.find(...) *)
MatchTeam(t, ref) ==
    \/ toLowerCase(t.name) = toLowerCase(ref)
    \/ toLowerCase(t.key) = toLowerCase(ref)

MatchUser(u, ref) ==
    \/ toLowerCase(u.name) = toLowerCase(ref)
    \/ toLowerCase(u.displayName) = toLowerCase(ref)
    \/ toLowerCase(u.email) = toLowerCase(ref)

MatchProject(p, ref) == toLowerCase(p.name) = toLowerCase(ref)

MatchState(s, ref) == toLowerCase(s.name) = toLowerCase(ref)

Match(kind, node, ref) ==
    CASE kind = "team" -> MatchTeam(node, ref)
      [] kind = "user" -> MatchUser(node, ref)
      [] kind = "project" -> MatchProject(node, ref)
      [] kind = "state" -> MatchState(node, ref)

(* A scan that keeps the last node that satisfies the predicate. *)
find_Last(kind, nodes, ref) ==
    LET hits == {i \in 1..Len(nodes) : Match(kind, nodes[i], ref)}
    IN  IF hits = {} THEN Null
        ELSE nodes[CHOOSE i \in hits : \A j \in hits : i >= j]

(* Array.prototype.find: the first node that satisfies the predicate, or    *)
(* Null (undefined) when there is none.                                     *)
find(kind, nodes, ref) ==
    LET hits == {i \in 1..Len(nodes) : Match(kind, nodes[i], ref)}
    IN  IF hits = {} THEN Null
        ELSE nodes[CHOOSE i \in hits : \A j \in hits : i <= j]

(* const result = { id: ..., name: ..., ... } *)
Pick(kind, n) ==
    CASE kind = "team" -> [id |-> n.id, name |-> n.name, key |-> n.key]
      [] kind = "user" -> [id |-> n.id, name |-> n.name, email |-> n.email,
                           displayName |-> n.displayName]
      [] kind = "project" -> [id |-> n.id, name |-> n.name]
      [] kind = "state" -> [id |-> n.id, name |-> n.name, type |-> n.type,
                            color |-> n.color]

ByIdEndpoint(kind) ==
    CASE kind = "team" -> "team"
      [] kind = "user" -> "user"
      [] kind = "project" -> "project"
      [] kind = "state" -> "workflowState"

AllEndpoint(kind) ==
    CASE kind = "team" -> "teams"
      [] kind = "user" -> "users"
      [] kind = "project" -> "projects"
      [] kind = "state" -> "workflowStates"

NoWrite == [at |-> -1, value |-> Null]

LastWrite(w, key) == IF key \in DOMAIN w THEN w[key] ELSE NoWrite

(* A resolve call (an activation of one of the four async functions).       *)
(*   pc      "await"  a remote request is outstanding                       *)
(*           "ready"  its promise has settled, the continuation has not run *)
(*           "done"   the call has returned                                 *)
(*   step    which request: "byId", "all", "ctxTeam", "teamStates"          *)
(*   remote  the client methods invoked so far, in order                    *)
(*   evicted history: the lookup of this call deleted an entry of its key   *)
Idle == [pc |-> "idle"]

(* A resolver that parks a marker in the cache while its request is out,   *)
(* so that a second call for the key finds the cache occupied.              *)
resolveStart_Pending(kind, ref, teamId, st, t) ==
    LET key == cacheKey(kind, ref, teamId)
        got == getCache(st, key, t)
        base == [kind |-> kind, ref |-> ref, ctx |-> teamId, key |-> key,
                 pc |-> "done", step |-> "none", resp |-> Rejected,
                 team |-> Null, result |-> Null, threw |-> FALSE,
                 remote |-> <<>>, evicted |-> FALSE]
    IN  IF got.value # Null
        THEN [frame |-> [base EXCEPT !.result = got.value], st |-> got.st]
        ELSE [frame |-> [base EXCEPT !.pc = "await",
                                     !.step = IF isUUID(ref) THEN "byId" ELSE "all",
                                     !.remote = <<IF isUUID(ref) THEN ByIdEndpoint(kind)
                                                  ELSE AllEndpoint(kind)>>],
              st |-> setCache(got.st, key, [pending |-> TRUE], t)]

(* A resolver that asks for the workflow states of all teams whatever the   *)
(* team context.                                                            *)
resolveStart_NoContext(kind, ref, teamId, st, t) ==
    LET key == cacheKey(kind, ref, teamId)
        got == getCache(st, key, t)
        base == [kind |-> kind, ref |-> ref, ctx |-> teamId, key |-> key,
                 pc |-> "done", step |-> "none", resp |-> Rejected,
                 team |-> Null, result |-> Null, threw |-> FALSE,
                 remote |-> <<>>,
                 evicted |-> key \in DOMAIN st.data /\ key \notin DOMAIN got.st.data]
    IN  IF got.value # Null
        THEN [frame |-> [base EXCEPT !.result = got.value], st |-> got.st]
        ELSE [frame |-> [base EXCEPT !.pc = "await",
                                     !.step = IF isUUID(ref) THEN "byId" ELSE "all",
                                     !.remote = <<IF isUUID(ref) THEN ByIdEndpoint(kind)
                                                  ELSE AllEndpoint(kind)>>],
              st |-> got.st]

(* The synchronous part of a call, up to its first await: the cache         *)
(* lookup, then the first request.                                          *)
resolveStart_FromCatalog(kind, ref, teamId, st, t) ==
    LET key == cacheKey(kind, ref, teamId)
        got == getCache(st, key, t)
        all == S_all_ \o KindText(kind) \o S_s
        base == [kind |-> kind, ref |-> ref, ctx |-> teamId, key |-> key,
                 pc |-> "done", step |-> "none", resp |-> Rejected,
                 team |-> Null, result |-> Null, threw |-> FALSE,
                 remote |-> <<>>,
                 evicted |-> key \in DOMAIN st.data /\ key \notin DOMAIN got.st.data]
    IN  IF got.value # Null
        THEN [frame |-> [base EXCEPT !.result = got.value], st |-> got.st]
        ELSE IF isUUID(ref)
        THEN [frame |-> [base EXCEPT !.pc = "await", !.step = "byId",
                                     !.remote = <<ByIdEndpoint(kind)>>],
              st |-> got.st]
        ELSE IF isCacheValid(got.st, all, t)
        THEN [frame |-> base, st |-> got.st]
        ELSE [frame |-> [base EXCEPT !.pc = "await", !.step = "all",
                                     !.remote = <<AllEndpoint(kind)>>],
              st |-> got.st]

resolveStart(kind, ref, teamId, st, t) ==
    LET key == cacheKey(kind, ref, teamId)
        got == getCache(st, key, t)
        base == [kind |-> kind, ref |-> ref, ctx |-> teamId, key |-> key,
                 pc |-> "done", step |-> "none", resp |-> Rejected,
                 team |-> Null, result |-> Null, threw |-> FALSE,
                 remote |-> <<>>,
                 evicted |-> key \in DOMAIN st.data /\ key \notin DOMAIN got.st.data]
    IN  IF got.value # Null
        THEN [frame |-> [base EXCEPT !.result = got.value], st |-> got.st]
        ELSE IF isUUID(ref)
        THEN [frame |-> [base EXCEPT !.pc = "await", !.step = "byId",
                                     !.remote = <<ByIdEndpoint(kind)>>],
              st |-> got.st]
        ELSE IF kind = "state" /\ Truthy(teamId) /\ isUUID(teamId)
        THEN [frame |-> [base EXCEPT !.pc = "await", !.step = "ctxTeam",
                                     !.remote = <<"team">>],
              st |-> got.st]
        ELSE [frame |-> [base EXCEPT !.pc = "await", !.step = "all",
                                     !.remote = <<AllEndpoint(kind)>>],
              st |-> got.st]

(* What the remote answers to the outstanding request of a call. *)
Answer(f, catalog) ==
    CASE f.step = "byId" -> FetchById(catalog, f.kind, f.ref)
      [] f.step = "all" -> FetchAll(catalog, f.kind)
      [] f.step = "ctxTeam" -> FetchById(catalog, "team", f.ctx)
      [] f.step = "teamStates" -> FetchTeamStates(catalog, f.team)

(* A catch block that sends the failed request again, up to three in all. *)
catchNull_Retry(f) ==
    IF Len(f.remote) < 3
    THEN [f EXCEPT !.pc = "await", !.remote = Append(f.remote, f.remote[Len(f.remote)])]
    ELSE [f EXCEPT !.pc = "done", !.result = Null, !.threw = FALSE]

(* A catch block that rethrows. *)
catchNull_Rethrow(f) == [f EXCEPT !.pc = "done", !.result = Null, !.threw = TRUE]

(* catch (error) { console.error(...); return null; } *)
catchNull(f) == [f EXCEPT !.pc = "done", !.result = Null, !.threw = FALSE]

(* A resolver that remembers absence: a scan without a match stores null    *)
(* under the key.                                                           *)
resolveResume_CacheAbsence(f, st, t) ==
    IF ~f.resp.ok
    THEN [frame |-> catchNull(f), st |-> st, wrote |-> FALSE]
    ELSE IF f.step = "byId"
    THEN LET result == Pick(f.kind, f.resp.body)
         IN  [frame |-> [f EXCEPT !.pc = "done", !.result = result],
              st |-> setCache(st, f.key, result, t), wrote |-> TRUE]
    ELSE IF f.step = "ctxTeam"
    THEN [frame |-> [f EXCEPT !.pc = "await", !.step = "teamStates",
                              !.team = f.resp.body,
                              !.remote = Append(f.remote, "team.states")],
          st |-> st, wrote |-> FALSE]
    ELSE LET node == find(f.kind, f.resp.body.nodes, f.ref)
             result == IF node # Null THEN Pick(f.kind, node) ELSE Null
         IN  [frame |-> [f EXCEPT !.pc = "done", !.result = result],
              st |-> setCache(st, f.key, result, t), wrote |-> node # Null]

(* The continuation of a call after its request has settled. *)
resolveResume(f, st, t) ==
    IF ~f.resp.ok
    THEN [frame |-> catchNull(f), st |-> st, wrote |-> FALSE]
    ELSE IF f.step = "byId"
    THEN LET result == Pick(f.kind, f.resp.body)
         IN  [frame |-> [f EXCEPT !.pc = "done", !.result = result],
              st |-> setCache(st, f.key, result, t), wrote |-> TRUE]
    ELSE IF f.step = "ctxTeam"
    THEN [frame |-> [f EXCEPT !.pc = "await", !.step = "teamStates",
                              !.team = f.resp.body,
                              !.remote = Append(f.remote, "team.states")],
          st |-> st, wrote |-> FALSE]
    ELSE LET node == find(f.kind, f.resp.body.nodes, f.ref)
         IN  IF node # Null
             THEN LET result == Pick(f.kind, node)
                  IN  [frame |-> [f EXCEPT !.pc = "done", !.result = result],
                       st |-> setCache(st, f.key, result, t), wrote |-> TRUE]
             ELSE [frame |-> [f EXCEPT !.pc = "done", !.result = Null],
                   st |-> st, wrote |-> FALSE]

-----------------------------------------------------------------------------
(* getAllTeams / getAllUsers / getAllProjects / getAllStates and            *)
(* createResolutionError                                                    *)

(* 'all_teams', 'all_users', 'all_projects', 'all_states' *)
allKey(kind) == S_all_ \o KindText(kind) \o S_s

(* A cached array is kept as [nodes |-> the array]. *)
MapSeq(kind, nodes) == [i \in 1..Len(nodes) |-> Pick(kind, nodes[i])]

(* A getAllX that goes to the remote whatever the cache holds. *)
getAllStart_Miss(kind, st, t) == [hit |-> FALSE, list |-> <<>>, st |-> st]

(* The synchronous part of getAllX: the cache lookup.  A cached array,      *)
(* empty or not, is truthy and is returned.                                 *)
getAllStart(kind, st, t) ==
    LET got == getCache(st, allKey(kind), t)
    IN  [hit |-> got.value # Null,
         list |-> IF got.value # Null THEN got.value.nodes ELSE <<>>,
         st |-> got.st]

(* catch (error) { console.error(...); return []; } *)
catchEmpty(resp) == [list |-> <<>>, threw |-> FALSE]

(* The continuation of getAllX after client.teams() etc. has settled. *)
getAllResume(kind, resp, st, t) ==
    IF resp.ok
    THEN LET result == MapSeq(kind, resp.body.nodes)
         IN  [list |-> result,
              st |-> setCache(st, allKey(kind), [nodes |-> result], t),
              wrote |-> TRUE, threw |-> FALSE]
    ELSE [list |-> catchEmpty(resp).list, st |-> st, wrote |-> FALSE,
          threw |-> catchEmpty(resp).threw]

(* Number.prototype.toString of a non-negative integer. *)
Digits == <<"0","1","2","3","4","5","6","7","8","9">>

RECURSIVE Decimal(_)
Decimal(n) ==
    IF n < 10 THEN <<Digits[n + 1]>>
    ELSE Decimal(n \div 10) \o <<Digits[(n % 10) + 1]>>

(* Array.prototype.join *)
RECURSIVE join(_, _)
join(parts, sep) ==
    IF parts = <<>> THEN <<>>
    ELSE IF Len(parts) = 1 THEN parts[1]
    ELSE parts[1] \o sep \o join(Tail(parts), sep)

slice_Whole(q, n) == q

(* Array.prototype.slice(0, n) *)
slice(q, n) == SubSeq(q, 1, IF Len(q) < n THEN Len(q) ELSE n)

UpperOf ==
    [c \in {LowerLetters[i] : i \in 1..26} |->
        UpperLetters[CHOOSE i \in 1..26 : LowerLetters[i] = c]]

UpperChar(c) == IF c \in DOMAIN UpperOf THEN UpperOf[c] ELSE c

(* entityType.charAt(0).toUpperCase() + entityType.slice(1) *)
capitalize(s) == IF s = <<>> THEN <<>> ELSE <<UpperChar(s[1])>> \o Tail(s)

(* The names offered in the message, per kind. *)
availableName(kind, e) ==
    CASE kind = "team" -> e.name \o S_open \o e.key \o S_close
      [] kind = "user" -> e.displayName \o S_open \o e.email \o S_close
      [] kind = "project" -> e.name
      [] kind = "state" -> e.name

maxNames == 10

unableSuffix_None(kind) == <<>>

(* ` Unable to fetch available ${entityType}s.` *)
unableSuffix(kind) == S_Unable \o KindText(kind) \o S_sDot

(* The message, from the array getAllX returned.  Beside the text, the      *)
(* record keeps the locals namesToShow and remainingCount.                  *)
buildMessage(kind, requestedValue, list) ==
    LET availableNames == [i \in 1..Len(list) |-> availableName(kind, list[i])]
        head == capitalize(KindText(kind)) \o S_quote \o requestedValue \o S_notFound
        namesToShow == slice(availableNames, maxNames)
        remainingCount == Len(availableNames) - maxNames
    IN  IF Len(availableNames) > 0
        THEN [text |-> head \o S_Available \o KindText(kind) \o S_sColon
                          \o join(namesToShow, S_commaSpace)
                          \o (IF remainingCount > 0
                              THEN S_and \o Decimal(remainingCount) \o S_more
                              ELSE <<>>),
              namesToShow |-> namesToShow,
              remainingCount |-> remainingCount]
        ELSE [text |-> head \o unableSuffix(kind),
              namesToShow |-> <<>>,
              remainingCount |-> 0 - maxNames]

(* A createResolutionError call.                                            *)
(*   pc     "await"  client.teams() etc. is outstanding                     *)
(*          "ready"  it has settled                                         *)
(*          "done"   the message has been returned                          *)
(*   list   the array getAllX returned                                      *)
NoMessage == [pc |-> "none"]

NoOp == [pc |-> "none"]

messageStart(kind, requestedValue, st, t) ==
    LET g == getAllStart(kind, st, t)
        base == [kind |-> kind, value |-> requestedValue, pc |-> "await",
                 resp |-> Rejected, list |-> <<>>, message |-> Null,
                 threw |-> FALSE, remote |-> <<AllEndpoint(kind)>>]
    IN  IF g.hit
        THEN [frame |-> [base EXCEPT !.pc = "done", !.list = g.list, !.remote = <<>>,
                                     !.message = buildMessage(kind, requestedValue, g.list)],
              st |-> g.st]
        ELSE [frame |-> base, st |-> g.st]

(* The continuation: getAllX settles, then the try block maps the array to *)
(* names; an exception of getAllX would be caught and leave no names.       *)
messageResume(m, st, t) ==
    LET r == getAllResume(m.kind, m.resp, st, t)
        list == IF r.threw THEN <<>> ELSE r.list
    IN  [frame |-> [m EXCEPT !.pc = "done", !.list = list,
                             !.message = buildMessage(m.kind, m.value, list)],
         st |-> r.st, wrote |-> r.wrote]

-----------------------------------------------------------------------------
(* createIssue / updateIssue                                                *)

S_Validation == <<"V","a","l","i","d","a","t","i","o","n">>
S_I1 == <<"I","-","1">>
S_I9 == <<"I","-","9">>

(* The issues of the tracker that updateIssue can load. *)
ISSUE_1 == [id |-> S_I1, teamId |-> UUID_2]

FetchIssue(issueId) ==
    IF issueId = ISSUE_1.id THEN [ok |-> TRUE, body |-> ISSUE_1] ELSE Rejected

(* A JavaScript number, told apart from undefined and from text. *)
Num(n) == <<"number", n>>

(* .string().required(): neither undefined nor the empty string *)
required(x) == x # Undefined /\ Len(x) > 0

(* title: .min(1, ...).max(255, ...), applied to a value that is there *)
titleLength(x) == x = Undefined \/ (Len(x) >= 1 /\ Len(x) <= 255)

(* priority: .number().optional().min(0, ...).max(4, ...) *)
priorityRange(x) == x = Undefined \/ (x[2] >= 0 /\ x[2] <= 4)

(* A schema that asks an update for at least one field. *)
validate_SomeField(type, payload) ==
    IF type = "create"
    THEN /\ required(payload.title)
         /\ titleLength(payload.title)
         /\ required(payload.teamId)
         /\ priorityRange(payload.priority)
    ELSE /\ \E x \in {payload.title, payload.assigneeId, payload.projectId, payload.stateId} :
               Truthy(x)
         /\ titleLength(payload.title)
         /\ priorityRange(payload.priority)

(* A schema with no constraint on the priority. *)
validate_AnyPriority(type, payload) ==
    IF type = "create"
    THEN /\ required(payload.title)
         /\ titleLength(payload.title)
         /\ required(payload.teamId)
    ELSE titleLength(payload.title)

(* createIssueSchema / updateIssueSchema .validate(payload): whether the    *)
(* payload passes.                                                          *)
validate(type, payload) ==
    IF type = "create"
    THEN /\ required(payload.title)
         /\ titleLength(payload.title)
         /\ required(payload.teamId)
         /\ priorityRange(payload.priority)
    ELSE /\ titleLength(payload.title)
         /\ priorityRange(payload.priority)

(* `validatedData.x ? this.resolveX(validatedData.x) : null` when falsy *)
NoCall == [pc |-> "skipped", result |-> Null, threw |-> FALSE]

resolveDefaultProject_Unset(envv, st, t) == [frame |-> NoCall, st |-> st]

(* resolveDefaultProject, up to its first await *)
resolveDefaultProject(envv, st, t) ==
    LET defaultProjectId == envv.DEFAULT_PROJECT_ID
    IN  IF ~Truthy(defaultProjectId)
        THEN [frame |-> NoCall, st |-> st]
        ELSE resolveStart("project", defaultProjectId, Undefined, st, t)

(* The array handed to Promise.all by createIssue: the four calls are made  *)
(* in this order, each running up to its first await.                       *)
createStart(payload, envv, st, t) ==
    LET c1 == resolveStart("team", payload.teamId, Undefined, st, t)
        c2 == IF Truthy(payload.assigneeId)
              THEN resolveStart("user", payload.assigneeId, Undefined, c1.st, t)
              ELSE [frame |-> NoCall, st |-> c1.st]
        c3 == IF Truthy(payload.projectId)
              THEN resolveStart("project", payload.projectId, Undefined, c2.st, t)
              ELSE resolveDefaultProject(envv, c2.st, t)
        c4 == IF Truthy(payload.stateId)
              THEN resolveStart("state", payload.stateId, Undefined, c3.st, t)
              ELSE [frame |-> NoCall, st |-> c3.st]
    IN  [res |-> [team |-> c1.frame, user |-> c2.frame,
                  project |-> c3.frame, state |-> c4.frame],
         defaultCalled |-> ~Truthy(payload.projectId),
         st |-> c4.st]

(* The array handed to Promise.all by updateIssue. *)
updateStart(payload, existingIssue, st, t) ==
    LET c2 == IF Truthy(payload.assigneeId)
              THEN resolveStart("user", payload.assigneeId, Undefined, st, t)
              ELSE [frame |-> NoCall, st |-> st]
        c3 == IF Truthy(payload.projectId)
              THEN resolveStart("project", payload.projectId, Undefined, c2.st, t)
              ELSE [frame |-> NoCall, st |-> c2.st]
        c4 == IF Truthy(payload.stateId)
              THEN resolveStart("state", payload.stateId, existingIssue.teamId, c3.st, t)
              ELSE [frame |-> NoCall, st |-> c3.st]
    IN  [res |-> [team |-> NoCall, user |-> c2.frame,
                  project |-> c3.frame, state |-> c4.frame],
         defaultCalled |-> FALSE,
         st |-> c4.st]

(* The array handed to Promise.all by the PUT handler of the issue route:   *)
(* the state is resolved with no team.                                      *)
putStart(payload, st, t) ==
    LET c2 == IF Truthy(payload.assigneeId)
              THEN resolveStart("user", payload.assigneeId, Undefined, st, t)
              ELSE [frame |-> NoCall, st |-> st]
        c3 == IF Truthy(payload.projectId)
              THEN resolveStart("project", payload.projectId, Undefined, c2.st, t)
              ELSE [frame |-> NoCall, st |-> c2.st]
        c4 == IF Truthy(payload.stateId)
              THEN resolveStart("state", payload.stateId, Undefined, c3.st, t)
              ELSE [frame |-> NoCall, st |-> c3.st]
    IN  [res |-> [team |-> NoCall, user |-> c2.frame,
                  project |-> c3.frame, state |-> c4.frame],
         defaultCalled |-> FALSE,
         st |-> c4.st]

PayloadRef(payload, kind) ==
    CASE kind = "team" -> payload.teamId
      [] kind = "user" -> payload.assigneeId
      [] kind = "project" -> payload.projectId
      [] kind = "state" -> payload.stateId

(* The order of the if statements after Promise.all. *)
CheckOrder(type) ==
    IF type \in {"create", "post", "search", "get"} THEN <<"team", "user", "project", "state">>
    ELSE IF type = "list" THEN <<"team">>
    ELSE <<"user", "project", "state">>

(* `!team`, `validatedData.assigneeId && !assignee`, ... *)
Missing_DefaultRequired(o, kind) ==
    /\ \/ kind \in {"team", "project"} /\ o.type \in {"create", "post"}
       \/ Truthy(PayloadRef(o.payload, kind))
    /\ o.res[kind].result = Null

Missing(o, kind) ==
    /\ (kind = "team" /\ o.type \in {"create", "post"}) \/ Truthy(PayloadRef(o.payload, kind))
    /\ o.res[kind].result = Null

firstFailure_ByCompletion(o) ==
    LET hits == {i \in 1..Len(o.order) : Missing(o, o.order[i])}
    IN  IF hits = {} THEN "none"
        ELSE o.order[CHOOSE i \in hits : \A j \in hits : i <= j]

firstFailure_NoStateCheck(o) ==
    LET order == CheckOrder(o.type)
        hits == {i \in 1..Len(order) : order[i] # "state" /\ Missing(o, order[i])}
    IN  IF hits = {} THEN "none"
        ELSE order[CHOOSE i \in hits : \A j \in hits : i <= j]

(* The first if statement whose condition holds, or "none". *)
firstFailure(o) ==
    LET order == CheckOrder(o.type)
        hits == {i \in 1..Len(order) : Missing(o, order[i])}
    IN  IF hits = {} THEN "none"
        ELSE order[CHOOSE i \in hits : \A j \in hits : i <= j]

(* assignee?.id *)
IdOf(e) == IF e # Null THEN e.id ELSE Undefined

(* assignee?.id || validatedData.assigneeId *)
IdOrElse(e, ref) ==
    IF e # Null /\ Truthy(e.id) THEN e.id
    ELSE ref

(* The argument of client.createIssue / client.updateIssue. *)
MutationRequest(o) ==
    IF o.type = "put"
    THEN [endpoint |-> "updateIssue", issueId |-> o.issueId, title |-> o.payload.title,
          assigneeId |-> IdOrElse(o.res.user.result, o.payload.assigneeId),
          projectId |-> IdOrElse(o.res.project.result, o.payload.projectId),
          stateId |-> IdOrElse(o.res.state.result, o.payload.stateId),
          priority |-> o.payload.priority]
    ELSE IF o.type \in {"create", "post"}
    THEN [endpoint |-> "createIssue", title |-> o.payload.title,
          teamId |-> o.res.team.result.id,
          assigneeId |-> IdOf(o.res.user.result),
          projectId |-> IdOf(o.res.project.result),
          stateId |-> IdOf(o.res.state.result),
          priority |-> o.payload.priority]
    ELSE [endpoint |-> "updateIssue", issueId |-> o.issueId, title |-> o.payload.title,
          assigneeId |-> IdOf(o.res.user.result),
          projectId |-> IdOf(o.res.project.result),
          stateId |-> IdOf(o.res.state.result),
          priority |-> o.payload.priority]

(* The operations that are handlers of an HTTP route: POST /api/linear,     *)
(* PUT /api/linear/[id] and GET /api/linear/search.  The others are methods *)
(* of LinearService.                                                        *)
RouteTypes == {"post", "put", "get"}

S_ValidationErrorPrefix ==
    <<"V","a","l","i","d","a","t","i","o","n"," ","e","r","r","o","r",":"," ">>

(* A catch block that reports every error under one heading. *)
routeCatch_Wrapped(name, message) ==
    [success |-> FALSE, error |-> S_ValidationErrorPrefix \o message, status |-> 400]

(* The catch block of a route handler, for an Error of the given name and   *)
(* message: the JSON body and the status of the response it returns.        *)
routeCatch(name, message) ==
    [success |-> FALSE,
     error |-> IF name = "ValidationError" THEN S_ValidationErrorPrefix \o message
               ELSE message,
     status |-> 400]

(* An Error of the given name and message is thrown inside the operation:   *)
(* a method of LinearService lets it out to its caller, a route handler     *)
(* catches it and returns the response.                                     *)
Raise(o, name, text) ==
    IF o.type \in RouteTypes
    THEN LET r == routeCatch(name, text)
         IN  [o EXCEPT !.pc = "done", !.outcome = "error", !.error = r.error,
                       !.errorName = name, !.response = r]
    ELSE [o EXCEPT !.pc = "done", !.outcome = "error", !.error = text,
                   !.errorName = name, !.escaped = TRUE]

(* throw new Error(text) inside the operation *)
Throw(o, text) == Raise(o, "Error", text)

(* The code after `await Promise.all([...])`: the checks in their order,    *)
(* then either createResolutionError up to its first await or the call of   *)
(* the mutating primitive.                                                  *)
afterResolutions(o, m0, st, t) ==
    LET k == firstFailure(o)
    IN  IF \E kind \in DOMAIN o.res : o.res[kind].threw
        THEN [op |-> Throw(o, S_NetworkError), msg |-> m0, st |-> st]
        ELSE IF k # "none"
        THEN LET m == messageStart(k, PayloadRef(o.payload, k), st, t)
                 o1 == [o EXCEPT !.reported = Append(o.reported, k)]
             IN  IF m.frame.pc = "done"
                 THEN [op |-> Throw(o1, m.frame.message.text), msg |-> m.frame, st |-> m.st]
                 ELSE [op |-> [o1 EXCEPT !.pc = "message"], msg |-> m.frame, st |-> m.st]
        ELSE [op |-> [o EXCEPT !.pc = "mutating",
                               !.mutation = Append(o.mutation, MutationRequest(o))],
              msg |-> m0, st |-> st]

(* The response of a successful operation: the resolved entities attached;  *)
(* updateIssue takes the team from the updated issue.                       *)
Response(o, catalog) ==
    IF o.type = "put" THEN [id |-> o.issueId, title |-> o.payload.title]
    ELSE
    [team |-> IF o.type \in {"create", "post"} THEN o.res.team.result
              ELSE LET r == FetchById(catalog, "team", o.existing.teamId)
                   IN  IF r.ok THEN Pick("team", r.body) ELSE Null,
     assignee |-> o.res.user.result,
     project |-> o.res.project.result,
     state |-> o.res.state.result]

(* A createIssue / updateIssue call.                                        *)
(*   pc        "fetchIssue" client.issue(issueId) is outstanding            *)
(*             "resolving"  Promise.all of the resolutions is outstanding   *)
(*             "message"    createResolutionError is outstanding            *)
(*             "mutating"   client.createIssue / updateIssue is outstanding *)
(*             "done"       the call has returned or thrown                 *)
(*   res       the resolve call of each kind, NoCall when none was made     *)
(*   order     history: the kinds in the order their calls completed        *)
(*   reported  history: the kinds createResolutionError was called for      *)
(*   mutation  history: the requests sent to the mutating primitive         *)
(*   failure   history: the message the remote primitive failed with        *)
(*   escaped   the call ended by throwing to its caller                     *)
(*   response  what the call returned                                       *)
NewOp(type, issueId, payload) ==
    [type |-> type, issueId |-> issueId, payload |-> payload, pc |-> "resolving",
     res |-> [kind \in Kinds |-> NoCall], order |-> <<>>, reported |-> <<>>,
     defaultCalled |-> FALSE, existing |-> Null, mutation |-> <<>>,
     outcome |-> "none", error |-> <<>>, response |-> Null,
     errorName |-> "none", escaped |-> FALSE, failure |-> <<>>]

-----------------------------------------------------------------------------
(* searchIssues, listIssues and the GET handler of the search route         *)

S_notFoundBare == <<"'"," ","n","o","t"," ","f","o","u","n","d">>
S_Team == <<"T","e","a","m">>
S_Assignee == <<"A","s","s","i","g","n","e","e">>
S_Project == <<"P","r","o","j","e","c","t">>
S_State == <<"S","t","a","t","e">>

(* The array handed to Promise.all by searchIssues and by the GET handler. *)
searchStart(payload, st, t) ==
    LET c1 == IF Truthy(payload.teamId)
              THEN resolveStart("team", payload.teamId, Undefined, st, t)
              ELSE [frame |-> NoCall, st |-> st]
        c2 == IF Truthy(payload.assigneeId)
              THEN resolveStart("user", payload.assigneeId, Undefined, c1.st, t)
              ELSE [frame |-> NoCall, st |-> c1.st]
        c3 == IF Truthy(payload.projectId)
              THEN resolveStart("project", payload.projectId, Undefined, c2.st, t)
              ELSE [frame |-> NoCall, st |-> c2.st]
        c4 == IF Truthy(payload.stateId)
              THEN resolveStart("state", payload.stateId, Undefined, c3.st, t)
              ELSE [frame |-> NoCall, st |-> c3.st]
    IN  [res |-> [team |-> c1.frame, user |-> c2.frame,
                  project |-> c3.frame, state |-> c4.frame],
         st |-> c4.st]

(* listIssues up to its first await: the team, when one is given. *)
listStart(payload, st, t) ==
    LET c1 == IF Truthy(payload.teamId)
              THEN resolveStart("team", payload.teamId, Undefined, st, t)
              ELSE [frame |-> NoCall, st |-> st]
    IN  [res |-> [team |-> c1.frame, user |-> NoCall,
                  project |-> NoCall, state |-> NoCall],
         st |-> c1.st]

(* The filter field of each kind. *)
FilterField(kind) ==
    CASE kind = "team" -> "team"
      [] kind = "user" -> "assignee"
      [] kind = "project" -> "project"
      [] kind = "state" -> "state"

(* A clause that takes the reference as given, unresolved. *)
idClause_Raw(o, kind) ==
    IF o.res[kind].result # Null
    THEN FilterField(kind) :> [id |-> [eq |-> PayloadRef(o.payload, kind)]]
    ELSE <<>>

(* if (team) { filter.team = { id: { eq: team.id } } } *)
idClause(o, kind) ==
    IF o.res[kind].result # Null
    THEN FilterField(kind) :> [id |-> [eq |-> o.res[kind].result.id]]
    ELSE <<>>

(* The filter object, a map from field to clause. *)
buildFilter(o) ==
    idClause(o, "team") @@ idClause(o, "user") @@ idClause(o, "project")
        @@ idClause(o, "state")
        @@ (IF o.type = "search" /\ Truthy(o.payload.query)
            THEN "title" :> [containsIgnoreCase |-> o.payload.query]
            ELSE <<>>)

(* The argument of client.issues: searchIssues always passes the filter,    *)
(* listIssues and the GET handler pass undefined for an empty one.          *)
QueryRequest(o) ==
    LET filter == buildFilter(o)
    IN  [filter |-> filter,
         hasFilter |-> o.type = "search" \/ DOMAIN filter # {},
         first |-> 50]

(* `Assignee '${validatedData.assigneeId}' not found` of the GET handler *)
routeNotFound(kind, value) ==
    (CASE kind = "team" -> S_Team
       [] kind = "user" -> S_Assignee
       [] kind = "project" -> S_Project
       [] kind = "state" -> S_State) \o S_quote \o value \o S_notFoundBare

(* A search that takes the first failed reference for a filter it leaves    *)
(* out, and goes on to the query.                                           *)
afterSearchResolutions_Lenient(o, m0, st, t) ==
    [op |-> [o EXCEPT !.pc = "querying",
                      !.queries = Append(o.queries, QueryRequest(o))],
     msg |-> m0, st |-> st]

(* The code after the resolutions of a search or a list: the checks in      *)
(* their order, then either the error or the call of client.issues.         *)
afterSearchResolutions(o, m0, st, t) ==
    LET k == firstFailure(o)
    IN  IF \E kind \in DOMAIN o.res : o.res[kind].threw
        THEN [op |-> Throw(o, S_NetworkError), msg |-> m0, st |-> st]
        ELSE IF k # "none" /\ o.type = "get"
        THEN [op |-> Throw([o EXCEPT !.reported = Append(o.reported, k)],
                           routeNotFound(k, PayloadRef(o.payload, k))),
              msg |-> m0, st |-> st]
        ELSE IF k # "none"
        THEN LET m == messageStart(k, PayloadRef(o.payload, k), st, t)
                 o1 == [o EXCEPT !.reported = Append(o.reported, k)]
             IN  IF m.frame.pc = "done"
                 THEN [op |-> Throw(o1, m.frame.message.text), msg |-> m.frame, st |-> m.st]
                 ELSE [op |-> [o1 EXCEPT !.pc = "message"], msg |-> m.frame, st |-> m.st]
        ELSE [op |-> [o EXCEPT !.pc = "querying",
                               !.queries = Append(o.queries, QueryRequest(o))],
              msg |-> m0, st |-> st]

(* A searchIssues / listIssues call or a GET of the search route: an        *)
(* operation with the requests sent to client.issues on record.             *)
NewQueryOp(type, payload) == [queries |-> <<>>] @@ NewOp(type, Undefined, payload)

-----------------------------------------------------------------------------
(* The resolver under concurrent callers, a moving clock and a changing     *)
(* remote catalog.                                                          *)

Step == CACHE_TTL \div 2

(* Two callers, each making one call after the other. *)
Callers == {1, 2}

(* The arguments callers pass, per kind: <<reference, teamId>>, the teamId  *)
(* being the optional team context of a state resolution.                   *)
Inputs(kind) ==
    CASE kind = "team" -> {<<S_engineering, Undefined>>, <<S_ENGINEERING, Undefined>>,
                           <<UUID_1_UPPER, Undefined>>}
      [] kind = "user" -> {<<S_JOHN, Undefined>>, <<S_MAILJ, Undefined>>,
                           <<UUID_1, Undefined>>}
      [] kind = "project" -> {<<S_backend, Undefined>>, <<NOT_UUID, Undefined>>,
                              <<UUID_2, Undefined>>}
      [] kind = "state" -> {<<S_todo, UUID_2>>, <<S_TODO, Undefined>>,
                            <<UUID_1, UUID_2>>}

Store == [data |-> cache, expiry |-> cacheExpiry]

Init ==
    /\ now = Step
    /\ remote = CatalogV0
    /\ cache = <<>>
    /\ cacheExpiry = <<>>
    /\ wlog = <<>>
    /\ calls = [c \in Callers |-> Idle]
    /\ started = 0
    /\ focus \in Kinds
    /\ msg = NoMessage
    /\ op = NoOp
    /\ env = [DEFAULT_PROJECT_ID |-> Undefined]
    /\ traces = <<>>
    /\ tasks = <<>>

(* Time passes. *)
Tick ==
    /\ now < Step * (MaxTicks + 1)
    /\ now' = now + Step
    /\ UNCHANGED <<remote, cache, cacheExpiry, wlog, calls, started, focus, msg, op, env, traces, tasks>>

(* Somebody renames, reorders or deletes entities in the issue tracker. *)
RemoteChange ==
    /\ remote' \in Catalogs \ {remote}
    /\ UNCHANGED <<now, cache, cacheExpiry, wlog, calls, started, focus, msg, op, env, traces, tasks>>

(* A caller invokes resolveTeam/User/Project/State(ref, teamId). *)
StartResolve(c, kind, ref, teamId) ==
    /\ started < MaxStarts
    /\ kind = focus
    /\ calls[c].pc \in {"idle", "done"}
    /\ \A d \in Callers : d < c => calls[d].pc \in {"await", "ready"}
    /\ LET r == resolveStart(kind, ref, teamId, Store, now)
       IN  /\ calls' = [calls EXCEPT ![c] = r.frame]
           /\ cache' = r.st.data
           /\ cacheExpiry' = r.st.expiry
    /\ started' = started + 1
    /\ UNCHANGED <<now, remote, wlog, focus, msg, op, env, traces, tasks>>

(* The remote serves the outstanding request of call c from the catalog as  *)
(* it is now, or the request fails.                                         *)
Reply(c) ==
    /\ calls[c].pc = "await"
    /\ \E fail \in BOOLEAN :
          calls' = [calls EXCEPT ![c].pc = "ready",
                                 ![c].resp = IF fail THEN Rejected
                                             ELSE Answer(calls[c], remote)]
    /\ UNCHANGED <<now, remote, cache, cacheExpiry, wlog, started, focus, msg, op, env, traces, tasks>>

(* The continuation of call c runs. *)
Resume(c) ==
    /\ calls[c].pc = "ready"
    /\ LET r == resolveResume(calls[c], Store, now)
       IN  /\ calls' = [calls EXCEPT ![c] = r.frame]
           /\ cache' = r.st.data
           /\ cacheExpiry' = r.st.expiry
           /\ wlog' = IF r.wrote
                      THEN (calls[c].key :> [at |-> now, value |-> r.frame.result]) @@ wlog
                      ELSE wlog
    /\ UNCHANGED <<now, remote, started, focus, msg, op, env, traces, tasks>>

Next ==
    \/ Tick
    \/ RemoteChange
    \/ \E c \in Callers, kind \in Kinds :
          \E in \in Inputs(kind) : StartResolve(c, kind, in[1], in[2])
    \/ \E c \in Callers : Reply(c)
    \/ \E c \in Callers : Resume(c)

Spec == Init /\ [][Next]_vars

(* The resolver against a remote whose collections hold duplicates. *)
InitScan ==
    /\ now = Step
    /\ remote = CatalogV2
    /\ cache = <<>>
    /\ cacheExpiry = <<>>
    /\ wlog = <<>>
    /\ calls = [c \in Callers |-> Idle]
    /\ started = 0
    /\ focus \in Kinds
    /\ msg = NoMessage
    /\ op = NoOp
    /\ env = [DEFAULT_PROJECT_ID |-> Undefined]
    /\ traces = <<>>
    /\ tasks = <<>>

NextScan ==
    \/ Tick
    \/ \E c \in Callers, kind \in Kinds :
          \E in \in Inputs(kind) : StartResolve(c, kind, in[1], in[2])
    \/ \E c \in Callers : Reply(c)
    \/ \E c \in Callers : Resume(c)

SpecScan == InitScan /\ [][NextScan]_vars

-----------------------------------------------------------------------------
(* Properties of the resolver *)

(* Caller c is the one whose call this step starts. *)
StartedBy(c) ==
    /\ started' = started + 1
    /\ calls[c].pc \in {"idle", "done"}
    /\ \A d \in Callers : d < c => calls[d].pc \in {"await", "ready"}

(* The continuation of caller c's call returns in this step. *)
ReturnedBy(c) == calls[c].pc = "ready" /\ calls'[c].pc = "done"

(* C1: once a resolution has stored an entity for a reference (and team     *)
(* context), every resolution of the same reference and context that starts *)
(* less than 5 minutes after that cache write makes no remote call and      *)
(* returns the stored entity, whatever the remote catalog holds by then.    *)
C1_HitWithinTtl ==
    [][\A c \in Callers :
          StartedBy(c) =>
             LET f == calls'[c]
                 w == LastWrite(wlog, f.key)
             IN  (w.at >= 0 /\ now < w.at + 5 * 60 * 1000) =>
                    /\ f.pc = "done"
                    /\ f.remote = <<>>
                    /\ f.result = w.value
                    /\ ~f.threw]_vars

(* A call answered from the cache while the remote catalog would by now     *)
(* resolve the reference to something else.                                 *)
C1_Witness ==
    \E c \in Callers :
       /\ calls[c].pc = "done"
       /\ calls[c].remote = <<>>
       /\ calls[c].result # Null
       /\ calls[c].key \in DOMAIN wlog
       /\ wlog[calls[c].key].at < now
       /\ LET fresh == IF isUUID(calls[c].ref)
                       THEN FetchById(remote, calls[c].kind, calls[c].ref).body
                       ELSE find(calls[c].kind, remote[calls[c].kind], calls[c].ref)
          IN  fresh = Null \/ Pick(calls[c].kind, fresh) # calls[c].result

(* C2: a resolution that starts at or after the expiry of the entry cached  *)
(* for its key does not return that entry: the lookup deletes it and a      *)
(* remote request is issued; and a resolution that returns an entity it     *)
(* fetched stores it with the expiry now + 5 minutes.                       *)
C2_RefetchAfterExpiry ==
    [][\A c \in Callers :
          /\ StartedBy(c) =>
                LET f == calls'[c]
                    w == LastWrite(wlog, f.key)
                IN  (f.key \in DOMAIN cache /\ w.at >= 0 /\ now >= w.at + 5 * 60 * 1000) =>
                       /\ f.pc = "await"
                       /\ Len(f.remote) = 1
                       /\ f.key \notin DOMAIN cache'
                       /\ f.key \notin DOMAIN cacheExpiry'
          /\ (ReturnedBy(c) /\ calls'[c].result # Null) =>
                /\ calls[c].key \in DOMAIN cache' \cap DOMAIN cacheExpiry'
                /\ cache'[calls[c].key] = calls'[c].result
                /\ cacheExpiry'[calls[c].key] = now + 5 * 60 * 1000]_vars

(* A call whose lookup deleted an expired entry has fetched the entity      *)
(* again and stored it with a fresh expiry.                                 *)
C2_Witness ==
    \E c \in Callers :
       /\ calls[c].pc = "done"
       /\ calls[c].evicted
       /\ calls[c].remote # <<>>
       /\ calls[c].result # Null
       /\ cacheExpiry[calls[c].key] = now + 5 * 60 * 1000

(* The identifier pattern: five groups of 8, 4, 4, 4 and 12 hexadecimal     *)
(* digits, joined by hyphens, letters in either case.                       *)
IdentifierShaped(s) ==
    LET Hex(g) == \A i \in 1..Len(g) :
                     LowerChar(g[i]) \in {"0","1","2","3","4","5","6","7","8","9",
                                          "a","b","c","d","e","f"}
    IN  /\ Len(s) = 8 + 1 + 4 + 1 + 4 + 1 + 4 + 1 + 12
        /\ Hex(SubSeq(s, 1, 8)) /\ s[9] = "-"
        /\ Hex(SubSeq(s, 10, 13)) /\ s[14] = "-"
        /\ Hex(SubSeq(s, 15, 18)) /\ s[19] = "-"
        /\ Hex(SubSeq(s, 20, 23)) /\ s[24] = "-"
        /\ Hex(SubSeq(s, 25, 36))

(* C3: for an identifier-shaped reference a resolution invokes at most the  *)
(* fetch-by-identifier method of its kind, never a collection fetch; when   *)
(* that fetch fails the result is null and nothing else is tried.           *)
C3_IdentifierPathOnly ==
    \A c \in Callers :
       (calls[c].pc # "idle" /\ IdentifierShaped(calls[c].ref)) =>
          /\ calls[c].remote \in {<<>>, <<ByIdEndpoint(calls[c].kind)>>}
          /\ (calls[c].pc = "done" /\ calls[c].remote # <<>> /\ ~calls[c].resp.ok) =>
                calls[c].result = Null

(* An identifier written in upper case whose fetch failed: null, after the  *)
(* one fetch by identifier.                                                 *)
C3_Witness ==
    \E c \in Callers :
       /\ calls[c].pc = "done"
       /\ calls[c].ref = UUID_1_UPPER
       /\ calls[c].remote = <<"team">>
       /\ ~calls[c].resp.ok
       /\ calls[c].result = Null

(* Two texts that differ at most in the case of their letters. *)
SameIgnoringCase(a, b) ==
    /\ Len(a) = Len(b)
    /\ \A i \in 1..Len(a) :
          \/ a[i] = b[i]
          \/ \E k \in 1..26 : {a[i], b[i]} = {UpperLetters[k], LowerLetters[k]}

(* The call of caller c searched a collection by name. *)
NameSearched(c) ==
    /\ calls[c].pc = "done"
    /\ calls[c].step \in {"all", "teamStates"}
    /\ calls[c].resp.ok

(* C7: on the name path, references that differ only in letter case         *)
(* resolve, against the same collection, to the same entity; and when the   *)
(* collection has an entity whose name is the reference up to case, the     *)
(* result is an entity that the reference names up to case.                 *)
C7_CaseInsensitiveNames ==
    \A c, d \in Callers :
       (NameSearched(c) /\ NameSearched(d)) =>
          LET f == calls[c]
              g == calls[d]
              nodes == f.resp.body.nodes
          IN  /\ (/\ f.kind = g.kind
                  /\ nodes = g.resp.body.nodes
                  /\ SameIgnoringCase(f.ref, g.ref)) => f.result = g.result
              /\ (\E i \in 1..Len(nodes) : SameIgnoringCase(nodes[i].name, f.ref)) =>
                    /\ f.result # Null
                    /\ \/ SameIgnoringCase(f.result.name, f.ref)
                       \/ f.kind = "team" /\ SameIgnoringCase(f.result.key, f.ref)
                       \/ f.kind = "user" /\ SameIgnoringCase(f.result.displayName, f.ref)
                       \/ f.kind = "user" /\ SameIgnoringCase(f.result.email, f.ref)

(* Two callers resolved the same name in different case against the same    *)
(* collection and got the same entity, whose name is written in yet         *)
(* another case.                                                            *)
C7_Witness ==
    \E c, d \in Callers :
       /\ NameSearched(c) /\ NameSearched(d)
       /\ calls[c].kind = calls[d].kind
       /\ calls[c].ref # calls[d].ref
       /\ SameIgnoringCase(calls[c].ref, calls[d].ref)
       /\ calls[c].resp.body.nodes = calls[d].resp.body.nodes
       /\ calls[c].result # Null
       /\ calls[c].result = calls[d].result
       /\ calls[c].result.name \notin {calls[c].ref, calls[d].ref}

(* No element of a sequence occurs twice. *)
NoRepeat(q) == \A i, j \in 1..Len(q) : q[i] = q[j] => i = j

(* C9: a resolve call never throws; a reference without a match and a       *)
(* failed remote request both end in null; and a failed request is not      *)
(* issued again.                                                            *)
C9_NullNeverThrows ==
    \A c \in Callers :
       calls[c].pc # "idle" =>
          /\ ~calls[c].threw
          /\ NoRepeat(calls[c].remote)
          /\ (calls[c].pc = "done" /\ calls[c].remote # <<>> /\ ~calls[c].resp.ok) =>
                calls[c].result = Null
          /\ (/\ NameSearched(c)
              /\ \A i \in 1..Len(calls[c].resp.body.nodes) :
                    ~Match(calls[c].kind, calls[c].resp.body.nodes[i], calls[c].ref)) =>
                calls[c].result = Null

(* One call ended in null because its request failed while the other ended  *)
(* in null because nothing in the collection matched.                       *)
C9_Witness ==
    \E c, d \in Callers :
       /\ calls[c].pc = "done" /\ calls[c].remote # <<>> /\ ~calls[c].resp.ok
       /\ calls[c].result = Null
       /\ NameSearched(d)
       /\ calls[d].result = Null
       /\ calls[d].resp.body.nodes # <<>>

-----------------------------------------------------------------------------
(* createResolutionError against catalogs of every size                     *)

S_T == <<"T">>
S_K == <<"K">>
S_U == <<"U">>
S_u == <<"u">>
S_P == <<"P">>
S_S == <<"S">>
S_at == <<"@","x">>
S_id == <<"i","d","-">>

(* The i-th entity of a kind in a catalog the remote may hold. *)
Numbered(kind, i) ==
    CASE kind = "team" -> [id |-> S_id \o Decimal(i), name |-> S_T \o Decimal(i),
                           key |-> S_K \o Decimal(i)]
      [] kind = "user" -> [id |-> S_id \o Decimal(i), name |-> S_u \o Decimal(i),
                           displayName |-> S_U \o Decimal(i),
                           email |-> S_u \o Decimal(i) \o S_at]
      [] kind = "project" -> [id |-> S_id \o Decimal(i), name |-> S_P \o Decimal(i)]
      [] kind = "state" -> [id |-> S_id \o Decimal(i), name |-> S_S \o Decimal(i),
                            type |-> "started", color |-> "#f2c94c",
                            teamId |-> S_id \o Decimal(1)]

CatalogOfSize(n) == [kind \in Kinds |-> [i \in 1..n |-> Numbered(kind, i)]]

RequestedValues == {S_cursor, S_NonExistentTeam}

InitMsg ==
    /\ now = Step
    /\ remote \in {CatalogOfSize(n) : n \in 0..MaxCatalog}
    /\ cache = <<>>
    /\ cacheExpiry = <<>>
    /\ wlog = <<>>
    /\ calls = [c \in Callers |-> Idle]
    /\ started = 0
    /\ focus \in Kinds
    /\ msg = NoMessage
    /\ op = NoOp
    /\ env = [DEFAULT_PROJECT_ID |-> Undefined]
    /\ traces = <<>>
    /\ tasks = <<>>

TickMsg ==
    /\ now < Step * (MaxTicks + 1)
    /\ now' = now + Step
    /\ UNCHANGED <<remote, cache, cacheExpiry, wlog, calls, started, focus, msg, op, env, traces, tasks>>

(* createResolutionError(kind, requestedValue) is called. *)
StartMessage(kind, requestedValue) ==
    /\ kind = focus
    /\ msg.pc \in {"none", "done"}
    /\ LET r == messageStart(kind, requestedValue, Store, now)
       IN  /\ msg' = r.frame
           /\ cache' = r.st.data
           /\ cacheExpiry' = r.st.expiry
    /\ UNCHANGED <<now, remote, wlog, calls, started, focus, op, env, traces, tasks>>

(* client.teams() etc. of the message call settles. *)
ReplyMessage ==
    /\ msg.pc = "await"
    /\ \E fail \in BOOLEAN :
          msg' = [msg EXCEPT !.pc = "ready",
                             !.resp = IF fail THEN Rejected
                                      ELSE FetchAll(remote, msg.kind)]
    /\ UNCHANGED <<now, remote, cache, cacheExpiry, wlog, calls, started, focus, op, env, traces, tasks>>

(* The continuation of the message call runs. *)
ResumeMessage ==
    /\ msg.pc = "ready"
    /\ LET r == messageResume(msg, Store, now)
       IN  /\ msg' = r.frame
           /\ cache' = r.st.data
           /\ cacheExpiry' = r.st.expiry
           /\ wlog' = IF r.wrote
                      THEN (allKey(msg.kind) :> [at |-> now, value |-> [nodes |-> r.frame.list]]) @@ wlog
                      ELSE wlog
    /\ UNCHANGED <<now, remote, calls, started, focus, op, env, traces, tasks>>

NextMsg ==
    \/ TickMsg
    \/ \E kind \in Kinds, v \in RequestedValues : StartMessage(kind, v)
    \/ ReplyMessage
    \/ ResumeMessage

SpecMsg == InitMsg /\ [][NextMsg]_vars

(* The expected opening of the message, written out per kind. *)
KindTitle(kind) ==
    CASE kind = "team" -> <<"T","e","a","m">>
      [] kind = "user" -> <<"U","s","e","r">>
      [] kind = "project" -> <<"P","r","o","j","e","c","t">>
      [] kind = "state" -> <<"S","t","a","t","e">>

NotFoundHead(kind, value) == KindTitle(kind) \o S_quote \o value \o S_notFound

StartsWith(text, prefix) ==
    /\ Len(prefix) <= Len(text)
    /\ SubSeq(text, 1, Len(prefix)) = prefix

EndsWith(text, suffix) ==
    /\ Len(suffix) <= Len(text)
    /\ SubSeq(text, Len(text) - Len(suffix) + 1, Len(text)) = suffix

(* The catalog of the message's kind, as names, in catalog order. *)
CatalogNames(kind) == [i \in 1..Len(remote[kind]) |-> availableName(kind, remote[kind][i])]

CatalogObtained == msg.pc = "done" /\ (msg.remote = <<>> \/ msg.resp.ok)

(* C8: for a catalog of n >= 1 entities that the builder obtained, the      *)
(* message lists exactly min(n, 10) names, the first ones in catalog order, *)
(* and ends with " and N more" exactly when n > 10, with N = n - 10.        *)
C8_AtMostTenNames ==
    LET n == Len(remote[focus])
        k == IF n < 10 THEN n ELSE 10
        listed == SubSeq(CatalogNames(focus), 1, k)
        upTo == NotFoundHead(focus, msg.value) \o S_Available \o KindText(focus)
                    \o S_sColon \o join(listed, S_commaSpace)
    IN  (CatalogObtained /\ n >= 1) =>
            /\ msg.message.namesToShow = listed
            /\ Len(msg.message.namesToShow) <= 10
            /\ StartsWith(msg.message.text, upTo)
            /\ IF n > 10
               THEN msg.message.text = upTo \o S_and \o Decimal(n - 10) \o S_more
               ELSE msg.message.text = upTo /\ ~EndsWith(msg.message.text, S_more)

C8_Witness ==
    /\ CatalogObtained
    /\ Len(remote[focus]) = 12
    /\ Len(msg.message.namesToShow) = 10
    /\ EndsWith(msg.message.text, S_and \o <<"2">> \o S_more)

FetchFailed == msg.pc = "done" /\ msg.remote # <<>> /\ ~msg.resp.ok

(* C10: the message builder never throws and its result always begins      *)
(* "<Kind> '<value>' not found."; when the catalog fetch fails the result   *)
(* is that text followed by " Unable to fetch available <kind>s.".          *)
C10_MessageNeverThrows ==
    /\ msg.pc = "done" =>
          /\ ~msg.threw
          /\ msg.message # Null
          /\ StartsWith(msg.message.text, NotFoundHead(msg.kind, msg.value))
    /\ FetchFailed =>
          msg.message.text = NotFoundHead(msg.kind, msg.value) \o S_Unable
                                \o KindText(msg.kind) \o S_sDot

C10_Witness ==
    /\ FetchFailed
    /\ Len(remote[focus]) > 0
    /\ EndsWith(msg.message.text, S_sDot)

-----------------------------------------------------------------------------
(* One createIssue or updateIssue call against the remote                   *)

(* Titles at the edges of the length constraint. *)
TitleOfLength(n) == [i \in 1..n |-> "x"]

(* Payloads around the field constraints: the title missing, empty, at the  *)
(* maximum and past it, the priority inside and outside 0..4.               *)
EdgeTitles == {Undefined, <<>>, S_FixBug, TitleOfLength(255), TitleOfLength(256)}

EdgePriorities == {Undefined, Num(0 - 1), Num(0), Num(4), Num(5)}

CreatePayloads ==
    [title : {S_FixBug},
     teamId : {S_engineering, S_NonExistentTeam, Undefined},
     assigneeId : {Undefined, S_JOHN},
     projectId : {Undefined, <<>>, S_backend},
     stateId : {Undefined, S_todo},
     priority : {Undefined}]
    \cup
    [title : EdgeTitles,
     teamId : {S_engineering},
     assigneeId : {Undefined, S_JOHN},
     projectId : {Undefined},
     stateId : {Undefined},
     priority : EdgePriorities]

UpdatePayloads ==
    [title : {Undefined},
     teamId : {Undefined},
     assigneeId : {Undefined, S_JOHN},
     projectId : {Undefined, S_backend},
     stateId : {Undefined, S_todo},
     priority : {Undefined}]
    \cup
    [title : EdgeTitles,
     teamId : {Undefined},
     assigneeId : {Undefined, S_JOHN},
     projectId : {Undefined},
     stateId : {Undefined},
     priority : EdgePriorities]

IssueIds == {S_I1, S_I9}

InitIssue ==
    /\ now = Step
    /\ remote = CatalogV0
    /\ cache = <<>>
    /\ cacheExpiry = <<>>
    /\ wlog = <<>>
    /\ calls = [c \in Callers |-> Idle]
    /\ started = 0
    /\ focus = "team"
    /\ msg = NoMessage
    /\ op = NoOp
    /\ env \in {[DEFAULT_PROJECT_ID |-> d] : d \in {Undefined, S_BACKEND}}
    /\ traces = <<>>
    /\ tasks = <<>>

(* createIssue(payload) is called: validation, then the four resolutions    *)
(* are started.  A payload that fails validation makes the call throw.      *)
StartCreate(payload) ==
    /\ op.pc = "none"
    /\ IF ~validate("create", payload)
       THEN /\ op' = Raise(NewOp("create", Undefined, payload), "ValidationError", S_Validation)
            /\ UNCHANGED <<cache, cacheExpiry>>
       ELSE LET r == createStart(payload, env, Store, now)
            IN  /\ op' = [NewOp("create", Undefined, payload) EXCEPT
                              !.res = r.res, !.defaultCalled = r.defaultCalled]
                /\ cache' = r.st.data
                /\ cacheExpiry' = r.st.expiry
    /\ UNCHANGED <<now, remote, wlog, calls, started, focus, msg, env, traces, tasks>>

(* POST /api/linear is served: validation, then the four resolutions are    *)
(* started, as in createIssue.                                              *)
StartPost(payload) ==
    /\ op.pc = "none"
    /\ IF ~validate("create", payload)
       THEN /\ op' = Raise(NewOp("post", Undefined, payload), "ValidationError", S_Validation)
            /\ UNCHANGED <<cache, cacheExpiry>>
       ELSE LET r == createStart(payload, env, Store, now)
            IN  /\ op' = [NewOp("post", Undefined, payload) EXCEPT
                              !.res = r.res, !.defaultCalled = r.defaultCalled]
                /\ cache' = r.st.data
                /\ cacheExpiry' = r.st.expiry
    /\ UNCHANGED <<now, remote, wlog, calls, started, focus, msg, env, traces, tasks>>

(* updateIssue(issueId, payload) is called: validation, then                *)
(* client.issue(issueId).                                                   *)
StartUpdate(issueId, payload) ==
    /\ op.pc = "none"
    /\ op' = IF ~validate("update", payload)
             THEN Raise(NewOp("update", issueId, payload), "ValidationError", S_Validation)
             ELSE [NewOp("update", issueId, payload) EXCEPT !.pc = "fetchIssue"]
    /\ UNCHANGED <<now, remote, cache, cacheExpiry, wlog, calls, started, focus, msg, env, traces, tasks>>

(* PUT /api/linear/[id] is served: validation, then the resolutions are    *)
(* started; the handler does not load the issue.                            *)
StartPut(issueId, payload) ==
    /\ op.pc = "none"
    /\ IF ~validate("update", payload)
       THEN /\ op' = Raise(NewOp("put", issueId, payload), "ValidationError", S_Validation)
            /\ UNCHANGED <<cache, cacheExpiry>>
       ELSE LET r == putStart(payload, Store, now)
            IN  /\ op' = [NewOp("put", issueId, payload) EXCEPT !.res = r.res]
                /\ cache' = r.st.data
                /\ cacheExpiry' = r.st.expiry
    /\ UNCHANGED <<now, remote, wlog, calls, started, focus, msg, env, traces, tasks>>

(* client.issue(issueId) settles and updateIssue goes on: the issue is      *)
(* there, or the client yields none, or the request fails.                  *)
IssueFetched(outcome) ==
    /\ op.pc = "fetchIssue"
    /\ outcome = "found" => FetchIssue(op.issueId).ok
    /\ outcome = "none" => ~FetchIssue(op.issueId).ok
    /\ CASE outcome = "rejected" ->
               /\ op' = Throw(op, S_NetworkError)
               /\ UNCHANGED <<cache, cacheExpiry>>
         [] outcome = "none" ->
               /\ op' = Throw(op, S_IssueNotFound)
               /\ UNCHANGED <<cache, cacheExpiry>>
         [] outcome = "found" ->
               LET existingIssue == FetchIssue(op.issueId).body
                   r == updateStart(op.payload, existingIssue, Store, now)
               IN  /\ op' = [op EXCEPT !.pc = "resolving", !.existing = existingIssue,
                                       !.res = r.res]
                   /\ cache' = r.st.data
                   /\ cacheExpiry' = r.st.expiry
    /\ UNCHANGED <<now, remote, wlog, calls, started, focus, msg, env, traces, tasks>>

(* The remote serves the outstanding request of one resolution of the       *)
(* operation, or the request fails.                                         *)
ReplyOp(kind) ==
    /\ op.pc = "resolving"
    /\ op.res[kind].pc = "await"
    /\ \E fail \in BOOLEAN :
          op' = [op EXCEPT !.res[kind].pc = "ready",
                           !.res[kind].resp = IF fail THEN Rejected
                                              ELSE Answer(op.res[kind], remote)]
    /\ UNCHANGED <<now, remote, cache, cacheExpiry, wlog, calls, started, focus, msg, env, traces, tasks>>

(* The continuation of one resolution of the operation runs. *)
ResumeOp(kind) ==
    /\ op.pc = "resolving"
    /\ op.res[kind].pc = "ready"
    /\ LET r == resolveResume(op.res[kind], Store, now)
       IN  /\ op' = [op EXCEPT !.res[kind] = r.frame,
                               !.order = IF r.frame.pc = "done"
                                         THEN Append(op.order, kind) ELSE op.order]
           /\ cache' = r.st.data
           /\ cacheExpiry' = r.st.expiry
           /\ wlog' = IF r.wrote
                      THEN (op.res[kind].key :> [at |-> now, value |-> r.frame.result]) @@ wlog
                      ELSE wlog
    /\ UNCHANGED <<now, remote, calls, started, focus, msg, env, traces, tasks>>

(* Promise.all has settled: the operation goes on behind it. *)
Continue ==
    /\ op.pc = "resolving"
    /\ \A kind \in Kinds : op.res[kind].pc \in {"done", "skipped"}
    /\ LET r == afterResolutions(op, msg, Store, now)
       IN  /\ op' = r.op
           /\ msg' = r.msg
           /\ cache' = r.st.data
           /\ cacheExpiry' = r.st.expiry
    /\ UNCHANGED <<now, remote, wlog, calls, started, focus, env, traces, tasks>>

(* createResolutionError returns and the operation throws its message. *)
ResumeOpMessage ==
    /\ op.pc = "message"
    /\ msg.pc = "ready"
    /\ LET r == messageResume(msg, Store, now)
       IN  /\ msg' = r.frame
           /\ op' = IF r.frame.threw THEN Throw(op, S_NetworkError)
                    ELSE Throw(op, r.frame.message.text)
           /\ cache' = r.st.data
           /\ cacheExpiry' = r.st.expiry
           /\ wlog' = IF r.wrote
                      THEN (allKey(msg.kind) :> [at |-> now, value |-> [nodes |-> r.frame.list]]) @@ wlog
                      ELSE wlog
    /\ UNCHANGED <<now, remote, calls, started, focus, env, traces, tasks>>

(* The messages a request to the remote can fail with. *)
RemoteErrors == {S_NetworkError, S_RateLimit}

(* client.createIssue / client.updateIssue settles: with the issue, with a  *)
(* payload that holds no issue, or with a failure that carries a message.   *)
MutationSettles(outcome, message) ==
    /\ op.pc = "mutating"
    /\ op' = CASE outcome = "issue" ->
                    [op EXCEPT !.pc = "done", !.outcome = "ok",
                               !.response = Response(op, remote)]
               [] outcome = "noIssue" ->
                    Throw(op, IF op.type \in {"create", "post"} THEN S_FailedCreate
                              ELSE S_FailedUpdate)
               [] outcome = "rejected" -> Throw([op EXCEPT !.failure = message], message)
    /\ UNCHANGED <<now, remote, cache, cacheExpiry, wlog, calls, started, focus, msg, env, traces, tasks>>

NextIssue ==
    \/ \E payload \in CreatePayloads : StartCreate(payload)
    \/ \E payload \in CreatePayloads : StartPost(payload)
    \/ \E issueId \in IssueIds, payload \in UpdatePayloads : StartUpdate(issueId, payload)
    \/ \E issueId \in IssueIds, payload \in UpdatePayloads : StartPut(issueId, payload)
    \/ \E outcome \in {"found", "none", "rejected"} : IssueFetched(outcome)
    \/ \E kind \in Kinds : ReplyOp(kind)
    \/ \E kind \in Kinds : ResumeOp(kind)
    \/ Continue
    \/ ReplyMessage
    \/ ResumeOpMessage
    \/ \E outcome \in {"issue", "noIssue", "rejected"}, message \in RemoteErrors :
          MutationSettles(outcome, message)

SpecIssue == InitIssue /\ [][NextIssue]_vars

(* The reference the payload gives for a kind. *)
GivenRef(kind) ==
    CASE kind = "team" -> op.payload.teamId
      [] kind = "user" -> op.payload.assigneeId
      [] kind = "project" -> op.payload.projectId
      [] kind = "state" -> op.payload.stateId

(* A reference of the call was looked up and did not resolve. *)
Failed(kind) ==
    /\ op.pc # "none"
    /\ Truthy(GivenRef(kind))
    /\ op.res[kind].pc = "done"
    /\ op.res[kind].result = Null

(* C4: the mutating primitive is invoked only after every resolution of the *)
(* call has completed and been checked; when the team or a given assignee,  *)
(* project or state reference fails to resolve it is never invoked.         *)
C4_MutationOnlyAfterChecks ==
    op.pc # "none" =>
        /\ op.mutation # <<>> =>
              /\ \A kind \in Kinds : op.res[kind].pc \in {"done", "skipped"}
              /\ \A kind \in Kinds :
                    Truthy(GivenRef(kind)) =>
                        op.res[kind].pc = "done" /\ op.res[kind].result # Null
              /\ op.reported = <<>>
              /\ Len(op.mutation) = 1
        /\ (\E kind \in Kinds : Failed(kind)) => op.mutation = <<>>

C4_Witness ==
    /\ op.pc = "done"
    /\ op.type = "update"
    /\ Failed("state")
    /\ ~Failed("user") /\ op.res["user"].pc = "done"
    /\ op.outcome = "error"
    /\ op.mutation = <<>>

FirstFailed ==
    IF Failed("team") THEN "team"
    ELSE IF Failed("user") THEN "user"
    ELSE IF Failed("project") THEN "project"
    ELSE IF Failed("state") THEN "state"
    ELSE "none"

(* C5: when references of one create call fail to resolve, one failure is   *)
(* reported, the first in the order team, assignee, project, state, in      *)
(* whatever order the resolutions completed; the error is the message of    *)
(* that one failure.                                                        *)
C5_FirstFailureInFixedOrder ==
    (op.pc \in {"message", "done"} /\ op.type = "create") =>
        /\ Len(op.reported) <= 1
        /\ FirstFailed = "none" => op.reported = <<>>
        /\ FirstFailed # "none" =>
              /\ op.reported = <<FirstFailed>>
              /\ msg.kind = FirstFailed
              /\ msg.value = GivenRef(FirstFailed)
              /\ op.pc = "done" =>
                    /\ op.outcome = "error"
                    /\ op.error = msg.message.text
                    /\ StartsWith(op.error, NotFoundHead(FirstFailed, GivenRef(FirstFailed)))

C5_Witness ==
    /\ op.pc = "done"
    /\ op.type = "create"
    /\ Failed("team") /\ Failed("user") /\ Failed("state")
    /\ op.order[1] = "state"
    /\ op.order[Len(op.order)] = "team"
    /\ op.reported = <<"team">>
    /\ StartsWith(op.error, <<"T","e","a","m">> \o S_quote \o S_NonExistentTeam \o S_notFound)

(* A create call that has passed validation. *)
CreateUnderWay == op.pc # "none" /\ op.type = "create" /\ op.res["team"].pc # "skipped"

(* C6: create with no projectId (absent, or empty) resolves the configured  *)
(* default-project reference and creates the issue with the project it      *)
(* resolves to; create with a non-empty projectId resolves that reference   *)
(* and never calls for the default.                                         *)
C6_DefaultProject ==
    CreateUnderWay =>
        /\ ~Truthy(op.payload.projectId) =>
              /\ op.defaultCalled
              /\ Truthy(env.DEFAULT_PROJECT_ID) =>
                    /\ op.res["project"].pc # "skipped"
                    /\ op.res["project"].kind = "project"
                    /\ op.res["project"].ref = env.DEFAULT_PROJECT_ID
                    /\ (op.mutation # <<>> /\ op.res["project"].result # Null) =>
                          op.mutation[1].projectId = op.res["project"].result.id
                    /\ (op.outcome = "ok" /\ op.res["project"].result # Null) =>
                          op.response.project = op.res["project"].result
        /\ Truthy(op.payload.projectId) =>
              /\ ~op.defaultCalled
              /\ op.res["project"].ref = op.payload.projectId
              /\ op.mutation # <<>> =>
                    op.mutation[1].projectId = op.res["project"].result.id

C6_Witness ==
    /\ CreateUnderWay
    /\ op.payload.projectId = Undefined
    /\ env.DEFAULT_PROJECT_ID = S_BACKEND
    /\ op.outcome = "ok"
    /\ op.mutation[1].projectId = PROJECT_1.id
    /\ op.response.project.name = S_Backend

-----------------------------------------------------------------------------
(* Concurrency of the resolver and the cache                                *)

InFlight(c) == calls[c].pc \in {"await", "ready"}

(* No resolution has stored an entity for the key that is still live. *)
Uncached(key) ==
    LET w == LastWrite(wlog, key)
    IN  w.at < 0 \/ now >= w.at + 5 * 60 * 1000

(* C11: concurrent lookups are not coalesced: a resolve call that starts    *)
(* for an uncached reference while another call for the same reference is   *)
(* in flight issues its own remote call, and the other call keeps its own.  *)
C11_NoCoalescing ==
    [][\A c, d \in Callers :
          (c # d /\ StartedBy(c) /\ InFlight(d) /\ calls'[c].pc # "idle"
             /\ calls'[c].key = calls[d].key /\ Uncached(calls[d].key)) =>
                /\ calls'[c].pc = "await"
                /\ Len(calls'[c].remote) = 1
                /\ calls'[d] = calls[d]
                /\ Len(calls[d].remote) >= 1]_vars

(* Two calls for the same reference, both with a request of their own out,  *)
(* and nothing cached for it.                                               *)
C11_Witness ==
    /\ InFlight(1) /\ InFlight(2)
    /\ calls[1].key = calls[2].key
    /\ calls[1].remote # <<>> /\ calls[2].remote # <<>>
    /\ calls[1].key \notin DOMAIN cache

(* C12: when in-flight resolutions race to populate one cache key the cache *)
(* holds the value of the one that completes last, and the entity left in   *)
(* the cache does not depend on the order of completion: a resolution that  *)
(* stores its entity over an entry a racing resolution stored (the entry    *)
(* was not there when it looked) stores the same entity.                    *)
C12_RacingWritesAgree ==
    [][\A c \in Callers :
          (ReturnedBy(c) /\ calls'[c].result # Null /\ calls[c].key \in DOMAIN cache) =>
             /\ cache'[calls[c].key] = calls'[c].result
             /\ calls'[c].result = cache[calls[c].key]]_vars

-----------------------------------------------------------------------------
(* The resolver with the time of each remote read on record                 *)

(* Time passes, long enough for a slow request to outlive the TTL. *)
TickStale ==
    /\ now < Step * (MaxTicks + 2)
    /\ now' = now + Step
    /\ UNCHANGED <<remote, cache, cacheExpiry, wlog, calls, started, focus, msg, op, env, traces, tasks>>

(* Reply, the response stamped with the time the remote was read. *)
ReplyStale(c) ==
    /\ calls[c].pc = "await"
    /\ \E fail \in BOOLEAN :
          LET a == Answer(calls[c], remote)
          IN  calls' = [calls EXCEPT ![c].pc = "ready",
                                     ![c].resp = IF fail \/ ~a.ok THEN Rejected
                                                 ELSE [ok |-> TRUE, body |-> a.body,
                                                       at |-> now]]
    /\ UNCHANGED <<now, remote, cache, cacheExpiry, wlog, started, focus, msg, op, env, traces, tasks>>

(* Resume, the write logged with the time of the read behind it. *)
ResumeStale(c) ==
    /\ calls[c].pc = "ready"
    /\ LET r == resolveResume(calls[c], Store, now)
       IN  /\ calls' = [calls EXCEPT ![c] = r.frame]
           /\ cache' = r.st.data
           /\ cacheExpiry' = r.st.expiry
           /\ wlog' = IF r.wrote
                      THEN (calls[c].key :> [at |-> now, value |-> r.frame.result,
                                             readAt |-> calls[c].resp.at]) @@ wlog
                      ELSE wlog
    /\ UNCHANGED <<now, remote, started, focus, msg, op, env, traces, tasks>>

NextStale ==
    \/ TickStale
    \/ RemoteChange
    \/ \E c \in Callers, kind \in Kinds :
          \E in \in Inputs(kind) : StartResolve(c, kind, in[1], in[2])
    \/ \E c \in Callers : ReplyStale(c)
    \/ \E c \in Callers : ResumeStale(c)

SpecStale == Init /\ [][NextStale]_vars

(* C13: an entity served from the cache reflects a read of the remote       *)
(* catalog made no more than 5 minutes before the moment it is served.      *)
C13_StalenessWithinTtl ==
    [][\A c \in Callers :
          (StartedBy(c) /\ calls'[c].pc = "done" /\ calls'[c].remote = <<>>
             /\ calls'[c].result # Null) =>
                /\ calls'[c].key \in DOMAIN wlog
                /\ now - wlog[calls'[c].key].readAt <= 5 * 60 * 1000]_vars

-----------------------------------------------------------------------------
(* The cache                                                                *)

(* The continuation of caller c's call stores an entity in this step. *)
StoredBy(c) == ReturnedBy(c) /\ calls[c].remote # <<>> /\ calls'[c].result # Null

(* C14: a cache write inserts or overwrites unconditionally: right after    *)
(* set(key, v) the cache holds v for key with the expiry now + 5 minutes,   *)
(* whatever was stored for key before, live or expired.                     *)
C14_SetOverwrites ==
    [][\A c \in Callers :
          StoredBy(c) =>
             LET key == calls[c].key
             IN  /\ DOMAIN cache' = DOMAIN cache \cup {key}
                 /\ DOMAIN cacheExpiry' = DOMAIN cacheExpiry \cup {key}
                 /\ cache'[key] = calls'[c].result
                 /\ cacheExpiry'[key] = now + 5 * 60 * 1000]_vars

(* Two calls stored different entities for one key; the cache holds the     *)
(* later one, with its expiry.                                              *)
C14_Witness ==
    \E c, d \in Callers :
       /\ c # d
       /\ calls[c].pc = "done" /\ calls[d].pc = "done"
       /\ calls[c].key = calls[d].key
       /\ calls[c].remote # <<>> /\ calls[d].remote # <<>>
       /\ calls[c].result # Null /\ calls[d].result # Null
       /\ calls[c].result # calls[d].result
       /\ cache[calls[c].key] = calls[d].result
       /\ cacheExpiry[calls[c].key] = now + 5 * 60 * 1000

(* C15: eviction is lazy and per key: an entry leaves the cache only by a   *)
(* lookup of its own key after its expiry (the lookup then finds nothing    *)
(* and goes to the remote), it changes only by a write on its own key, and  *)
(* any other step, the passing of time included, leaves it as it is.        *)
C15_LazyPerKeyEviction ==
    [][\A k \in DOMAIN cache :
          /\ k \notin DOMAIN cache' =>
                /\ cacheExpiry[k] <= now
                /\ k \notin DOMAIN cacheExpiry'
                /\ \E c \in Callers :
                      /\ StartedBy(c) /\ calls'[c].pc = "await"
                      /\ calls'[c].key = k /\ calls'[c].result = Null
          /\ (k \in DOMAIN cache' /\ (cache'[k] # cache[k] \/ cacheExpiry'[k] # cacheExpiry[k])) =>
                \E c \in Callers : StoredBy(c) /\ calls[c].key = k
          /\ DOMAIN cache = DOMAIN cacheExpiry]_vars

(* An expired entry still in the cache after another key was written past   *)
(* its expiry.                                                              *)
C15_Witness ==
    \E k, j \in DOMAIN cache :
       /\ k # j
       /\ cacheExpiry[k] <= now
       /\ j \in DOMAIN wlog
       /\ wlog[j].at >= cacheExpiry[k]
       /\ cache[k] = wlog[k].value

(* The entry of the key is in the cache and has not expired. *)
LiveEntry(key) == key \in DOMAIN cache /\ key \in DOMAIN cacheExpiry /\ now < cacheExpiry[key]

(* C16: a resolve call makes no remote call on a cache hit, exactly one on  *)
(* the identifier path or on a name search over the whole collection, and   *)
(* two only for a state name resolved with a team context (the team, then   *)
(* that team's states); never more than two.                                *)
C16_RemoteCallCount ==
    [][\A c \in Callers :
          /\ StartedBy(c) /\ calls'[c].pc # "idle" =>
                IF LiveEntry(calls'[c].key)
                THEN calls'[c].pc = "done" /\ calls'[c].remote = <<>>
                ELSE calls'[c].pc = "await" /\ Len(calls'[c].remote) = 1
          /\ ReturnedBy(c) =>
                LET f == calls'[c]
                IN  /\ Len(f.remote) \in {1, 2}
                    /\ IdentifierShaped(f.ref) => f.remote = <<ByIdEndpoint(f.kind)>>
                    /\ (~IdentifierShaped(f.ref) /\ ~(f.kind = "state" /\ Truthy(f.ctx))) =>
                          f.remote = <<AllEndpoint(f.kind)>>
                    /\ Len(f.remote) = 2 =>
                          /\ f.kind = "state" /\ Truthy(f.ctx) /\ ~IdentifierShaped(f.ref)
                          /\ f.remote = <<"team", "team.states">>
          /\ calls'[c].pc # "idle" => Len(calls'[c].remote) <= 2]_vars

(* A state name resolved within a team: two remote calls and an entity. *)
C16_Witness ==
    \E c \in Callers :
       /\ calls[c].pc = "done"
       /\ calls[c].kind = "state"
       /\ calls[c].remote = <<"team", "team.states">>
       /\ calls[c].result # Null

-----------------------------------------------------------------------------
(* update                                                                   *)

(* An update of an issue: LinearService.updateIssue or the PUT handler. *)
IsUpdate == op.pc # "none" /\ op.type \in {"update", "put"}

Invoked(f) == {f.remote[i] : i \in 1..Len(f.remote)}

(* C17: update fetches the existing issue before any entity resolution and  *)
(* resolves stateId within that issue's team: the state resolution of an    *)
(* update never searches the workflow states of all teams.                  *)
C17_UpdateStateScoped ==
    IsUpdate =>
        /\ \A kind \in Kinds : op.res[kind].pc # "skipped" => op.existing # Null
        /\ op.res["state"].pc # "skipped" =>
              /\ op.existing # Null
              /\ op.res["state"].ctx = op.existing.teamId
              /\ "workflowStates" \notin Invoked(op.res["state"])

EmptyPayload ==
    /\ op.payload.title = Undefined
    /\ op.payload.assigneeId = Undefined
    /\ op.payload.projectId = Undefined
    /\ op.payload.stateId = Undefined
    /\ op.payload.priority = Undefined

(* C18: update with an empty payload succeeds: no entity resolution is      *)
(* made, the update primitive is invoked exactly once with every field      *)
(* unset, and the caller gets a success response; only a failure of the     *)
(* remote (loading the issue, or the update itself) makes it fail.          *)
C18_EmptyUpdate ==
    (IsUpdate /\ EmptyPayload) =>
        /\ \A kind \in Kinds : op.res[kind].pc = "skipped"
        /\ op.reported = <<>>
        /\ msg = NoMessage
        /\ Len(op.mutation) <= 1
        /\ op.pc \in {"fetchIssue", "resolving", "mutating", "done"}
        /\ op.mutation # <<>> =>
              /\ op.mutation[1].endpoint = "updateIssue"
              /\ op.mutation[1].issueId = op.issueId
              /\ op.mutation[1].title = Undefined
              /\ op.mutation[1].assigneeId = Undefined
              /\ op.mutation[1].projectId = Undefined
              /\ op.mutation[1].stateId = Undefined
        /\ op.outcome = "ok" => Len(op.mutation) = 1 /\ op.response # Null
        /\ op.outcome = "error" =>
              \/ op.mutation = <<>> /\ op.type = "update"
                    /\ op.error \in {S_IssueNotFound} \cup RemoteErrors
              \/ Len(op.mutation) = 1 /\ op.error \in {S_FailedUpdate} \cup RemoteErrors

C18_Witness ==
    /\ IsUpdate /\ EmptyPayload
    /\ op.type = "put"
    /\ op.outcome = "ok"
    /\ Len(op.mutation) = 1
    /\ op.mutation[1].stateId = Undefined

-----------------------------------------------------------------------------
(* One search or list of issues against the remote                          *)

SearchPayloads ==
    [query : {Undefined, S_FixBug},
     teamId : {Undefined, S_engineering},
     assigneeId : {Undefined, S_cursor, UUID_1},
     projectId : {Undefined, S_backend},
     stateId : {Undefined, S_todo}]

ListPayloads ==
    [query : {Undefined},
     teamId : {Undefined, S_ENG, S_NonExistentTeam},
     assigneeId : {Undefined},
     projectId : {Undefined},
     stateId : {Undefined}]

InitSearch ==
    /\ now = Step
    /\ remote = CatalogV0
    /\ cache = <<>>
    /\ cacheExpiry = <<>>
    /\ wlog = <<>>
    /\ calls = [c \in Callers |-> Idle]
    /\ started = 0
    /\ focus = "team"
    /\ msg = NoMessage
    /\ op = NoOp
    /\ env = [DEFAULT_PROJECT_ID |-> Undefined]
    /\ traces = <<>>
    /\ tasks = <<>>

(* searchIssues(payload) is called, or GET /api/linear/search is served:    *)
(* the resolutions of the filters given are started.                        *)
StartSearch(type, payload) ==
    /\ op.pc = "none"
    /\ LET r == searchStart(payload, Store, now)
       IN  /\ op' = [NewQueryOp(type, payload) EXCEPT !.res = r.res]
           /\ cache' = r.st.data
           /\ cacheExpiry' = r.st.expiry
    /\ UNCHANGED <<now, remote, wlog, calls, started, focus, msg, env, traces, tasks>>

(* listIssues(limit, offset, teamId) is called. *)
StartList(payload) ==
    /\ op.pc = "none"
    /\ LET r == listStart(payload, Store, now)
       IN  /\ op' = [NewQueryOp("list", payload) EXCEPT !.res = r.res]
           /\ cache' = r.st.data
           /\ cacheExpiry' = r.st.expiry
    /\ UNCHANGED <<now, remote, wlog, calls, started, focus, msg, env, traces, tasks>>

(* The resolutions have settled: the search or list goes on behind them. *)
ContinueSearch ==
    /\ op.pc = "resolving"
    /\ \A kind \in Kinds : op.res[kind].pc \in {"done", "skipped"}
    /\ LET r == afterSearchResolutions(op, msg, Store, now)
       IN  /\ op' = r.op
           /\ msg' = r.msg
           /\ cache' = r.st.data
           /\ cacheExpiry' = r.st.expiry
    /\ UNCHANGED <<now, remote, wlog, calls, started, focus, env, traces, tasks>>

(* client.issues settles: with a page of issues, or with a failure. *)
QuerySettles(ok, message) ==
    /\ op.pc = "querying"
    /\ op' = IF ok
             THEN [op EXCEPT !.pc = "done", !.outcome = "ok",
                             !.response = [team |-> op.res.team.result,
                                           assignee |-> op.res.user.result,
                                           project |-> op.res.project.result,
                                           state |-> op.res.state.result]]
             ELSE Throw([op EXCEPT !.failure = message], message)
    /\ UNCHANGED <<now, remote, cache, cacheExpiry, wlog, calls, started, focus, msg, env, traces, tasks>>

NextSearch ==
    \/ \E type \in {"search", "get"}, payload \in SearchPayloads : StartSearch(type, payload)
    \/ \E payload \in ListPayloads : StartList(payload)
    \/ \E kind \in Kinds : ReplyOp(kind)
    \/ \E kind \in Kinds : ResumeOp(kind)
    \/ ContinueSearch
    \/ ReplyMessage
    \/ ResumeOpMessage
    \/ \E ok \in BOOLEAN, message \in RemoteErrors : QuerySettles(ok, message)

SpecSearch == InitSearch /\ [][NextSearch]_vars

(* The id clause a filter should hold for a kind: the id of the entity the  *)
(* reference resolved to.                                                   *)
Supplied(kind) == Truthy(GivenRef(kind))

FieldOf(kind) ==
    CASE kind = "team" -> "team"
      [] kind = "user" -> "assignee"
      [] kind = "project" -> "project"
      [] kind = "state" -> "state"

(* C19: the remote query of a search carries a filter with exactly one      *)
(* clause {field: {id: {eq: id}}} for each of team, assignee, project and   *)
(* state that was supplied and resolved, id being the id of the resolved    *)
(* entity, and no id clause for a field that was not supplied.              *)
C19_SearchFilter ==
    (op.pc # "none" /\ op.type \in {"search", "get"} /\ op.queries # <<>>) =>
        LET q == op.queries[1]
        IN  /\ Len(op.queries) = 1
            /\ \A kind \in Kinds :
                  /\ (Supplied(kind) /\ op.res[kind].result # Null) =>
                        /\ FieldOf(kind) \in DOMAIN q.filter
                        /\ q.filter[FieldOf(kind)] = [id |-> [eq |-> op.res[kind].result.id]]
                  /\ ~Supplied(kind) => FieldOf(kind) \notin DOMAIN q.filter
            /\ DOMAIN q.filter \subseteq {FieldOf(kind) : kind \in Kinds} \cup {"title"}
            /\ q.hasFilter \/ DOMAIN q.filter = {}

(* A search by names: the filter carries the ids they resolved to. *)
C19_Witness ==
    /\ op.pc = "done" /\ op.type = "search" /\ op.outcome = "ok"
    /\ op.payload.teamId = S_engineering
    /\ op.payload.stateId = S_todo
    /\ op.payload.assigneeId = Undefined
    /\ op.queries[1].filter["team"] = [id |-> [eq |-> UUID_1]]
    /\ op.queries[1].filter["state"] = [id |-> [eq |-> UUID_1]]
    /\ "assignee" \notin DOMAIN op.queries[1].filter

(* The name a filter goes by in an error. *)
FilterTitle(kind) ==
    CASE kind = "team" -> <<"T","e","a","m">>
      [] kind = "user" -> <<"A","s","s","i","g","n","e","e">>
      [] kind = "project" -> <<"P","r","o","j","e","c","t">>
      [] kind = "state" -> <<"S","t","a","t","e">>

(* C20: when a filter reference of a search, or the team of a list, does    *)
(* not resolve, the operation fails with an error naming the filter and its *)
(* value ("Assignee 'cursor' not found" for the assignee cursor) and the    *)
(* remote query is never invoked.                                           *)
C20_UnresolvedFilterFails ==
    (op.pc = "done" /\ op.type \in {"search", "get", "list"} /\ FirstFailed # "none") =>
        /\ op.outcome = "error"
        /\ op.queries = <<>>
        /\ StartsWith(op.error, FilterTitle(FirstFailed) \o S_quote
                                   \o GivenRef(FirstFailed) \o S_notFoundBare)

(* The part of C20 that the service and the handler share. *)
C20_NoQueryAfterFailure ==
    (op.pc # "none" /\ op.type \in {"search", "get", "list"} /\ FirstFailed # "none") =>
        /\ op.queries = <<>>
        /\ op.pc = "done" => op.outcome = "error"

-----------------------------------------------------------------------------
(* Validation of the payload                                                *)

(* The payload of the call breaks a field constraint: for a create the      *)
(* title is missing, empty or longer than 255 characters, for an update a   *)
(* given title is empty or longer than 255 characters, or the priority is   *)
(* outside 0..4.                                                            *)
ViolatesConstraints ==
    \/ /\ op.type = "create"
       /\ \/ op.payload.title = Undefined
          \/ op.payload.title = <<>>
          \/ Len(op.payload.title) > 255
    \/ /\ op.type \in {"update", "put"}
       /\ op.payload.title # Undefined
       /\ op.payload.title = <<>> \/ Len(op.payload.title) > 255
    \/ /\ op.payload.priority # Undefined
       /\ op.payload.priority[2] < 0 \/ op.payload.priority[2] > 4

(* C21: a payload that violates the field constraints (title missing, empty *)
(* or longer than 255 characters; priority outside 0..4) is rejected before *)
(* any resolution is attempted: the call ends with the validation error,    *)
(* no entity resolution was started, the issue was not loaded, no mutation  *)
(* was sent and the cache was not touched.                                  *)
C21_RejectedBeforeResolution ==
    (op.pc # "none" /\ ViolatesConstraints) =>
        /\ op.pc = "done"
        /\ op.outcome = "error"
        /\ op.errorName = "ValidationError"
        /\ EndsWith(op.error, S_Validation)
        /\ \A kind \in Kinds : op.res[kind] = NoCall
        /\ op.existing = Null
        /\ op.mutation = <<>>
        /\ op.reported = <<>>
        /\ msg = NoMessage
        /\ cache = <<>>
        /\ wlog = <<>>

C21_Witness ==
    /\ op.pc = "done"
    /\ op.type = "put"
    /\ op.payload.title = S_FixBug
    /\ op.payload.priority = Num(5)
    /\ op.payload.assigneeId = S_JOHN
    /\ op.error = S_ValidationErrorPrefix \o S_Validation
    /\ op.res["user"] = NoCall

-----------------------------------------------------------------------------
(* Failures of the remote primitive                                         *)

(* The remote primitive of the call failed after the resolutions. *)
PrimitiveFailed == op.pc = "done" /\ op.failure # <<>>

-----------------------------------------------------------------------------
(* Failures at the boundary of an operation                                 *)

(* The call has ended in a failure: validation, resolution, missing issue   *)
(* or remote failure.                                                       *)
OperationFailed == op.pc = "done" /\ op.outcome = "error"

(* C23: every failure of an issue operation (validation failure, resolution *)
(* failure, missing issue, remote failure) ends in a returned structured    *)
(* response with success = false and a string error; no exception escapes   *)
(* the operation to its caller.                                             *)
C23_FailureIsAResponse ==
    OperationFailed =>
        /\ ~op.escaped
        /\ op.response # Null
        /\ op.response.success = FALSE
        /\ Len(op.response.error) > 0
        /\ op.response.error = op.error

(* The route handlers on their own return a response for every failure. *)
C23_RoutesAnswerEveryFailure ==
    (OperationFailed /\ op.type \in RouteTypes) =>
        /\ ~op.escaped
        /\ op.response # Null
        /\ op.response.success = FALSE
        /\ op.response.status = 400
        /\ Len(op.response.error) > 0
        /\ op.response.error = op.error

-----------------------------------------------------------------------------
(* validateApiKey and the middleware                                        *)

S_BearerSpace == <<"B","e","a","r","e","r"," ">>
S_testApiKey == <<"t","e","s","t","-","a","p","i","-","k","e","y">>
S_invalidKey == <<"i","n","v","a","l","i","d","-","k","e","y">>
S_apiSlash == <<"/","a","p","i","/">>
S_apiDocs == <<"/","a","p","i","/","d","o","c","s">>

(* String.prototype.startsWith *)
startsWith(str, searchString) ==
    /\ Len(str) >= Len(searchString)
    /\ SubSeq(str, 1, Len(searchString)) = searchString

(* String.prototype.substring(start) *)
substring(str, start) == SubSeq(str, start + 1, Len(str))

(* validateApiKey of src/lib/auth.ts, the module the middleware imports:    *)
(* the Authorization header only.  An absent header or parameter (null) is  *)
(* Undefined here.                                                          *)
validateApiKey(envv, request) ==
    LET apiKey == envv.API_KEY
        authHeader == request.headers.authorization
    IN  IF ~Truthy(apiKey) THEN FALSE
        ELSE IF /\ Truthy(authHeader)
                /\ startsWith(authHeader, S_BearerSpace)
                /\ substring(authHeader, 7) = apiKey
        THEN TRUE
        ELSE FALSE

(* validateApiKey in its other version: the Authorization header, then the  *)
(* query parameter Bearer.                                                  *)
validateApiKeyHeaderOrQuery(envv, request) ==
    LET apiKey == envv.API_KEY
        authHeader == request.headers.authorization
        queryApiKey == request.searchParams.Bearer
    IN  IF ~Truthy(apiKey) THEN FALSE
        ELSE IF /\ Truthy(authHeader)
                /\ startsWith(authHeader, S_BearerSpace)
                /\ substring(authHeader, 7) = apiKey
        THEN TRUE
        ELSE IF queryApiKey = apiKey
        THEN TRUE
        ELSE FALSE

(* NextResponse.next() *)
NextResponse == [status |-> 200, checked |-> FALSE]

(* createUnauthorizedResponse() *)
createUnauthorizedResponse == [status |-> 401, checked |-> TRUE]

(* A middleware that asks the documentation paths for the key as well. *)
middleware_DocsProtected(envv, request) ==
    IF startsWith(request.pathname, S_apiSlash)
    THEN IF ~validateApiKey(envv, request)
         THEN createUnauthorizedResponse
         ELSE [NextResponse EXCEPT !.checked = TRUE]
    ELSE NextResponse

(* middleware(request): the response, and whether validateApiKey was        *)
(* called.                                                                  *)
middleware(envv, request) ==
    IF startsWith(request.pathname, S_apiSlash)
    THEN IF startsWith(request.pathname, S_apiDocs)
         THEN NextResponse
         ELSE IF ~validateApiKey(envv, request)
         THEN createUnauthorizedResponse
         ELSE [NextResponse EXCEPT !.checked = TRUE]
    ELSE NextResponse

(* The requests: paths inside and outside /api/, Authorization headers of   *)
(* several shapes, the query parameter Bearer.                              *)
Pathnames ==
    {<<"/">>, <<"/","a","p","i">>, <<"/","d","o","c","s">>, <<"/","a","p","i","/","l","i","n","e","a","r","/","l","i","s","t">>, <<"/","a","p","i","/","d","o","c","s">>, <<"/","a","p","i","/","d","o","c","s","/","o","p","e","n","a","p","i">>, <<"/","a","p","i","/","d">>, <<"/","a","p","i","x","/","l","i","s","t">>}

AuthHeaders ==
    {Undefined, <<>>,
     S_BearerSpace \o S_testApiKey,
     S_BearerSpace \o S_invalidKey,
     S_BearerSpace,
     <<"B","a","s","i","c"," ">> \o S_testApiKey,
     <<"b","e","a","r","e","r"," ">> \o S_testApiKey,
     <<"B","e","a","r","e","r">> \o S_testApiKey}

QueryKeys == {Undefined, <<>>, S_testApiKey, S_invalidKey}

Requests ==
    [pathname : Pathnames,
     headers : [authorization : AuthHeaders],
     searchParams : [Bearer : QueryKeys]]

ApiKeys == {Undefined, <<>>, S_testApiKey}

InitAuth ==
    /\ now = Step
    /\ remote = CatalogV0
    /\ cache = <<>>
    /\ cacheExpiry = <<>>
    /\ wlog = <<>>
    /\ calls = [c \in Callers |-> Idle]
    /\ started = 0
    /\ focus = "team"
    /\ msg = NoMessage
    /\ op = [pc |-> "none"]
    /\ env \in {[API_KEY |-> k] : k \in ApiKeys}
    /\ traces = <<>>
    /\ tasks = <<>>

(* validateApiKey of src/lib/auth.ts is called with a request. *)
CallValidateApiKey(request) ==
    /\ op.pc = "none"
    /\ op' = [pc |-> "done", fn |-> "validateApiKey", request |-> request,
              returned |-> validateApiKey(env, request)]
    /\ UNCHANGED <<now, remote, cache, cacheExpiry, wlog, calls, started, focus, msg, env, traces, tasks>>

(* validateApiKey in its other version is called with a request. *)
CallValidateApiKeyHeaderOrQuery(request) ==
    /\ op.pc = "none"
    /\ op' = [pc |-> "done", fn |-> "validateApiKeyHeaderOrQuery", request |-> request,
              returned |-> validateApiKeyHeaderOrQuery(env, request)]
    /\ UNCHANGED <<now, remote, cache, cacheExpiry, wlog, calls, started, focus, msg, env, traces, tasks>>

(* The middleware serves a request. *)
CallMiddleware(request) ==
    /\ op.pc = "none"
    /\ op' = [pc |-> "done", fn |-> "middleware", request |-> request,
              response |-> middleware(env, request)]
    /\ UNCHANGED <<now, remote, cache, cacheExpiry, wlog, calls, started, focus, msg, env, traces, tasks>>

NextAuth ==
    \/ \E request \in Requests : CallValidateApiKey(request)
    \/ \E request \in Requests : CallValidateApiKeyHeaderOrQuery(request)
    \/ \E request \in Requests : CallMiddleware(request)

SpecAuth == InitAuth /\ [][NextAuth]_vars

(* The request carries the configured key: API_KEY is set and the request   *)
(* has it as "Authorization: Bearer <API_KEY>" or as Bearer=<API_KEY>.      *)
CarriesKey(request) ==
    /\ env.API_KEY # Undefined /\ env.API_KEY # <<>>
    /\ \/ request.headers.authorization = S_BearerSpace \o env.API_KEY
       \/ request.searchParams.Bearer = env.API_KEY

(* C24: validateApiKey returns true exactly when API_KEY is configured and  *)
(* the request carries that key as the header "Authorization: Bearer        *)
(* <API_KEY>" or as the query parameter Bearer=<API_KEY>; it returns false  *)
(* for a wrong key in either place, for a non-Bearer scheme, for a request  *)
(* without credentials, and whenever API_KEY is not set.                    *)
C24_ValidateApiKey ==
    (op.pc = "done" /\ op.fn \in {"validateApiKey", "validateApiKeyHeaderOrQuery"}) =>
        (op.returned <=> CarriesKey(op.request))

(* The version with the query parameter on its own does what C24 says. *)
C24_HeaderOrQueryVersion ==
    (op.pc = "done" /\ op.fn = "validateApiKeyHeaderOrQuery") =>
        (op.returned <=> CarriesKey(op.request))

(* The version of src/lib/auth.ts accepts the header and nothing else. *)
C24_HeaderOnlyVersion ==
    (op.pc = "done" /\ op.fn = "validateApiKey") =>
        (op.returned <=>
            /\ env.API_KEY # Undefined /\ env.API_KEY # <<>>
            /\ op.request.headers.authorization = S_BearerSpace \o env.API_KEY)

-----------------------------------------------------------------------------
(* Traces: the store, POST /api/traces, AgentProcessor and the additions    *)
(* of events                                                                *)

(* The document ids of the run: SeedId is there from the start, PostId is   *)
(* the id docRef.doc() gives the trace of the POST request.                 *)
SeedId == "t0"
PostId == "t1"
TraceIds == {SeedId, PostId}

(* The POST request of the run, and the calls that add an event. *)
Posters == {1}
Adders == {2, 3}

(* The object createTrace builds and stores. *)
NewTrace(status) == [status |-> status, events |-> <<>>]

(* docRef.set(data) *)
storeSet(tr, id, data) == (id :> data) @@ tr

(* getTrace: docRef.get(), null when the document does not exist *)
getTrace(tr, id) == IF id \in DOMAIN tr THEN tr[id] ELSE Null

(* updateTrace: docRef.update(updates) merges the fields into the document  *)
(* and rejects when the document does not exist.                            *)
updateTrace(tr, id, updates) ==
    IF id \in DOMAIN tr
    THEN [ok |-> TRUE, tr |-> [tr EXCEPT ![id] = updates @@ tr[id]]]
    ELSE [ok |-> FALSE, tr |-> tr]

(* FieldValue.arrayUnion(element): appended unless it is already there *)
arrayUnion(array, element) ==
    IF \E k \in 1..Len(array) : array[k] = element THEN array
    ELSE Append(array, element)

(* addEventToTrace: one update with arrayUnion, applied by the store in one *)
(* step.                                                                    *)
addEventToTrace(tr, id, event) ==
    IF id \in DOMAIN tr
    THEN [ok |-> TRUE,
          tr |-> [tr EXCEPT ![id].events = arrayUnion(tr[id].events, event)]]
    ELSE [ok |-> FALSE, tr |-> tr]

(* A processTrace call.                                                     *)
(*   pc  "none"         not called                                          *)
(*       "getTrace"     getTrace(traceId) is outstanding                    *)
(*       "markRunning"  updateTrace(status: 'running') is outstanding       *)
(*       "run"          run(coordinator(trace), input) is outstanding       *)
(*       "complete"     updateTrace(status: 'completed') is outstanding     *)
(*       "catch"        updateTrace(status: 'failed') is outstanding        *)
(*       "done"         the promise is fulfilled                            *)
(*       "rejected"     the promise is rejected                             *)
(*   marksRunning  the version that sets 'running' before the run           *)
NoProc == [pc |-> "none", marksRunning |-> FALSE]

(* processTrace(traceId), up to its first await *)
processTrace(marksRunning) == [pc |-> "getTrace", marksRunning |-> marksRunning]

(* The continuation of processTrace after the outstanding call has settled, *)
(* fulfilled (ok) or rejected.                                              *)
processResume(p, tr, id, ok) ==
    CASE p.pc = "getTrace" ->
           IF ~ok \/ getTrace(tr, id) = Null
           THEN [proc |-> [p EXCEPT !.pc = "catch"], tr |-> tr]
           ELSE [proc |-> [p EXCEPT !.pc = IF p.marksRunning THEN "markRunning" ELSE "run"],
                 tr |-> tr]
      [] p.pc = "markRunning" ->
           LET u == updateTrace(tr, id, [status |-> "running"])
           IN  IF ok /\ u.ok
               THEN [proc |-> [p EXCEPT !.pc = "run"], tr |-> u.tr]
               ELSE [proc |-> [p EXCEPT !.pc = "catch"], tr |-> tr]
      [] p.pc = "run" ->
           [proc |-> [p EXCEPT !.pc = IF ok THEN "complete" ELSE "catch"], tr |-> tr]
      [] p.pc = "complete" ->
           LET u == updateTrace(tr, id, [status |-> "completed"])
           IN  IF ok /\ u.ok
               THEN [proc |-> [p EXCEPT !.pc = "done"], tr |-> u.tr]
               ELSE [proc |-> [p EXCEPT !.pc = "catch"], tr |-> tr]
      [] p.pc = "catch" ->
           LET u == updateTrace(tr, id, [status |-> "failed"])
           IN  IF ok /\ u.ok
               THEN [proc |-> [p EXCEPT !.pc = "done"], tr |-> u.tr]
               ELSE [proc |-> [p EXCEPT !.pc = "rejected"], tr |-> tr]

(* A request or call that works on a trace.                                 *)
(*   kind      "submit"   POST /api/traces, the prompt submission           *)
(*             "create"   POST /api/traces, the handler without the agent   *)
(*             "putEvent" PUT /api/traces/[id] with an event                *)
(*             "handoff"  TraceService.addHandoffEvent                      *)
(*   trace     the object createTrace returned                              *)
(*   stored    history: the status the trace was stored with                *)
(*   procAtResponse  history: where processTrace stood at the response     *)
(*   event     the event the call adds; snapshot: the events it read        *)
(*   added     history: the store accepted the write that adds the event    *)
(*   ran       history: processTrace of this request called the coordinator *)
(*   pendingSeen  history: the pending traces in the store when the         *)
(*             request listed the traces                                    *)
IdleTask ==
    [kind |-> "none", pc |-> "idle", id |-> "", blocking |-> FALSE,
     trace |-> Null, stored |-> "", proc |-> NoProc, procAtResponse |-> "none",
     event |-> 0, snapshot |-> <<>>, added |-> FALSE, response |-> Null,
     ran |-> FALSE, pendingSeen |-> {}]

(* The response of the catch block of a trace route. *)
traceRouteCatch == [status |-> 400, success |-> FALSE]

InitTrace ==
    /\ now = Step
    /\ remote = CatalogV0
    /\ cache = <<>>
    /\ cacheExpiry = <<>>
    /\ wlog = <<>>
    /\ calls = [c \in Callers |-> Idle]
    /\ started = 0
    /\ focus = "team"
    /\ msg = NoMessage
    /\ op = NoOp
    /\ env = [API_KEY |-> S_testApiKey]
    /\ traces = (SeedId :> NewTrace("completed"))
    /\ tasks = [i \in Posters \cup Adders |-> IdleTask]

(* POST /api/traces, the prompt submission, up to `await docRef.set(...)`   *)
(* of createTrace: the trace is built with status 'pending'.                *)
SubmitPrompt(i, blocking, marksRunning) ==
    /\ tasks[i].pc = "idle"
    /\ PostId \notin DOMAIN traces
    /\ tasks' = [tasks EXCEPT ![i] =
                    [IdleTask EXCEPT !.kind = "submit", !.pc = "creating", !.id = PostId,
                                     !.blocking = blocking,
                                     !.proc = [NoProc EXCEPT !.marksRunning = marksRunning],
                                     !.trace = NewTrace("pending")]]
    /\ UNCHANGED traces
    /\ UNCHANGED <<now, remote, cache, cacheExpiry, wlog, calls, started, focus, msg, op, env>>

(* POST /api/traces in the handler that runs no agent: the trace is built   *)
(* with status 'pending' for a blocking request and 'running' otherwise.    *)
CreateTraceRequest(i, blocking) ==
    /\ tasks[i].pc = "idle"
    /\ PostId \notin DOMAIN traces
    /\ tasks' = [tasks EXCEPT ![i] =
                    [IdleTask EXCEPT !.kind = "create", !.pc = "creating", !.id = PostId,
                                     !.blocking = blocking,
                                     !.trace = NewTrace(IF blocking THEN "pending"
                                                        ELSE "running")]]
    /\ UNCHANGED traces
    /\ UNCHANGED <<now, remote, cache, cacheExpiry, wlog, calls, started, focus, msg, op, env>>

(* docRef.set settles and the POST handler goes on behind createTrace: a    *)
(* blocking submission awaits processTrace, a non-blocking one starts it    *)
(* and returns; the handler without the agent returns the trace or goes on  *)
(* to its mock completion.                                                  *)
TraceStored(i, ok) ==
    /\ tasks[i].pc = "creating"
    /\ LET t == tasks[i]
       IN  IF ~ok
           THEN /\ tasks' = [tasks EXCEPT ![i].pc = "done", ![i].response = traceRouteCatch]
                /\ UNCHANGED traces
           ELSE /\ traces' = storeSet(traces, t.id, t.trace)
                /\ tasks' =
                     [tasks EXCEPT ![i] =
                        IF t.kind = "submit" /\ t.blocking
                        THEN [t EXCEPT !.pc = "processing", !.stored = t.trace.status,
                                       !.proc = processTrace(t.proc.marksRunning)]
                        ELSE IF t.kind = "submit"
                        THEN [t EXCEPT !.pc = "done", !.stored = t.trace.status,
                                       !.proc = processTrace(t.proc.marksRunning),
                                       !.procAtResponse = "getTrace",
                                       !.response = [status |-> 201, success |-> TRUE,
                                                     data |-> [id |-> t.id,
                                                               status |-> t.trace.status]]]
                        ELSE IF t.blocking
                        THEN [t EXCEPT !.pc = "mockUpdate", !.stored = t.trace.status]
                        ELSE [t EXCEPT !.pc = "done", !.stored = t.trace.status,
                                       !.response = [status |-> 201, success |-> TRUE,
                                                     data |-> t.trace]]]
    /\ UNCHANGED <<now, remote, cache, cacheExpiry, wlog, calls, started, focus, msg, op, env>>

(* The handler without the agent, blocking: updateTrace with the mock event *)
(* and status 'completed' settles.                                          *)
MockCompleted(i, ok) ==
    /\ tasks[i].pc = "mockUpdate"
    /\ LET u == updateTrace(traces, tasks[i].id,
                            [events |-> <<0>>, status |-> "completed"])
       IN  IF ok /\ u.ok
           THEN /\ traces' = u.tr
                /\ tasks' = [tasks EXCEPT ![i].pc = "reread"]
           ELSE /\ tasks' = [tasks EXCEPT ![i].pc = "done", ![i].response = traceRouteCatch]
                /\ UNCHANGED traces
    /\ UNCHANGED <<now, remote, cache, cacheExpiry, wlog, calls, started, focus, msg, op, env>>

(* The outstanding call of processTrace settles and processTrace goes on. *)
ProcessStep(i, ok) ==
    /\ tasks[i].proc.pc \in {"getTrace", "markRunning", "run", "complete", "catch"}
    /\ LET r == processResume(tasks[i].proc, traces, tasks[i].id, ok)
       IN  /\ traces' = r.tr
           /\ tasks' = [tasks EXCEPT ![i].proc = r.proc,
                                    ![i].ran = @ \/ r.proc.pc = "run"]
    /\ UNCHANGED <<now, remote, cache, cacheExpiry, wlog, calls, started, focus, msg, op, env>>

(* A blocking submission goes on behind processTraceBlocking: a rejection   *)
(* goes to the catch block, otherwise the trace is read again.              *)
ProcessingSettled(i) ==
    /\ tasks[i].pc = "processing"
    /\ tasks[i].proc.pc \in {"done", "rejected"}
    /\ tasks' = IF tasks[i].proc.pc = "rejected"
                THEN [tasks EXCEPT ![i].pc = "done", ![i].response = traceRouteCatch]
                ELSE [tasks EXCEPT ![i].pc = "reread"]
    /\ UNCHANGED traces
    /\ UNCHANGED <<now, remote, cache, cacheExpiry, wlog, calls, started, focus, msg, op, env>>

(* The getTrace before the response settles and the handler returns. *)
TraceReread(i, ok) ==
    /\ tasks[i].pc = "reread"
    /\ tasks' = [tasks EXCEPT
                   ![i].pc = "done",
                   ![i].procAtResponse = tasks[i].proc.pc,
                   ![i].response =
                       IF ~ok THEN traceRouteCatch
                       ELSE [status |-> IF tasks[i].kind \in {"putEvent", "next"}
                                        THEN 200 ELSE 201,
                             success |-> TRUE,
                             data |-> getTrace(traces, tasks[i].id)]]
    /\ UNCHANGED traces
    /\ UNCHANGED <<now, remote, cache, cacheExpiry, wlog, calls, started, focus, msg, op, env>>

(* PUT /api/traces/[id] with an event, up to the getTrace that checks the   *)
(* trace.                                                                   *)
PutEvent(i, id) ==
    /\ tasks[i].pc = "idle"
    /\ tasks' = [tasks EXCEPT ![i] =
                    [IdleTask EXCEPT !.kind = "putEvent", !.pc = "check", !.id = id,
                                     !.event = i]]
    /\ UNCHANGED traces
    /\ UNCHANGED <<now, remote, cache, cacheExpiry, wlog, calls, started, focus, msg, op, env>>

(* The outstanding call of the PUT handler settles: the check of the trace  *)
(* (404 when it is not there), then addEventToTrace.                        *)
PutEventStep(i, ok) ==
    /\ tasks[i].kind = "putEvent"
    /\ tasks[i].pc \in {"check", "add"}
    /\ LET t == tasks[i]
           a == addEventToTrace(traces, t.id, t.event)
       IN  IF ~ok
           THEN /\ tasks' = [tasks EXCEPT ![i].pc = "done", ![i].response = traceRouteCatch]
                /\ UNCHANGED traces
           ELSE IF t.pc = "check"
           THEN /\ tasks' = IF getTrace(traces, t.id) = Null
                            THEN [tasks EXCEPT ![i].pc = "done",
                                               ![i].response = [status |-> 404,
                                                                success |-> FALSE]]
                            ELSE [tasks EXCEPT ![i].pc = "add"]
                /\ UNCHANGED traces
           ELSE IF a.ok
           THEN /\ traces' = a.tr
                /\ tasks' = [tasks EXCEPT ![i].pc = "reread", ![i].added = TRUE]
           ELSE /\ tasks' = [tasks EXCEPT ![i].pc = "done", ![i].response = traceRouteCatch]
                /\ UNCHANGED traces
    /\ UNCHANGED <<now, remote, cache, cacheExpiry, wlog, calls, started, focus, msg, op, env>>

(* TraceService.addHandoffEvent(traceId, event), up to its getTrace. *)
AddHandoffEvent(i, id) ==
    /\ tasks[i].pc = "idle"
    /\ tasks' = [tasks EXCEPT ![i] =
                    [IdleTask EXCEPT !.kind = "handoff", !.pc = "read", !.id = id,
                                     !.event = i]]
    /\ UNCHANGED traces
    /\ UNCHANGED <<now, remote, cache, cacheExpiry, wlog, calls, started, focus, msg, op, env>>

(* The outstanding call of addHandoffEvent settles: the trace is read and   *)
(* its events kept, then updateTrace writes those events and the new one.   *)
(* Every error is caught and logged.                                        *)
HandoffStep(i, ok) ==
    /\ tasks[i].kind = "handoff"
    /\ tasks[i].pc \in {"read", "write"}
    /\ LET t == tasks[i]
           trace == getTrace(traces, t.id)
           u == updateTrace(traces, t.id, [events |-> Append(t.snapshot, t.event)])
       IN  IF ~ok
           THEN /\ tasks' = [tasks EXCEPT ![i].pc = "done"]
                /\ UNCHANGED traces
           ELSE IF t.pc = "read"
           THEN /\ tasks' = IF trace = Null
                            THEN [tasks EXCEPT ![i].pc = "done"]
                            ELSE [tasks EXCEPT ![i].pc = "write",
                                               ![i].snapshot = trace.events]
                /\ UNCHANGED traces
           ELSE IF u.ok
           THEN /\ traces' = u.tr
                /\ tasks' = [tasks EXCEPT ![i].pc = "done", ![i].added = TRUE]
           ELSE /\ tasks' = [tasks EXCEPT ![i].pc = "done"]
                /\ UNCHANGED traces
    /\ UNCHANGED <<now, remote, cache, cacheExpiry, wlog, calls, started, focus, msg, op, env>>

NextTrace ==
    \/ \E i \in Posters, blocking \in BOOLEAN, marksRunning \in BOOLEAN :
          SubmitPrompt(i, blocking, marksRunning)
    \/ \E i \in Posters, blocking \in BOOLEAN : CreateTraceRequest(i, blocking)
    \/ \E i \in Posters, ok \in BOOLEAN : TraceStored(i, ok)
    \/ \E i \in Posters, ok \in BOOLEAN : MockCompleted(i, ok)
    \/ \E i \in Posters, ok \in BOOLEAN : ProcessStep(i, ok)
    \/ \E i \in Posters : ProcessingSettled(i)
    \/ \E i \in Posters \cup Adders, ok \in BOOLEAN : TraceReread(i, ok)
    \/ \E i \in Adders, id \in TraceIds : PutEvent(i, id)
    \/ \E i \in Adders, ok \in BOOLEAN : PutEventStep(i, ok)
    \/ \E i \in Adders, id \in TraceIds : AddHandoffEvent(i, id)
    \/ \E i \in Adders, ok \in BOOLEAN : HandoffStep(i, ok)

SpecTrace == InitTrace /\ [][NextTrace]_vars

(* The same, with every outstanding call settling in the end, fulfilled or  *)
(* rejected.                                                                *)
SpecTraceLive ==
    /\ InitTrace
    /\ [][NextTrace]_vars
    /\ WF_vars(\E i \in Posters, ok \in BOOLEAN : TraceStored(i, ok))
    /\ WF_vars(\E i \in Posters, ok \in BOOLEAN : MockCompleted(i, ok))
    /\ WF_vars(\E i \in Posters, ok \in BOOLEAN : ProcessStep(i, ok))
    /\ WF_vars(\E i \in Posters : ProcessingSettled(i))
    /\ WF_vars(\E i \in Posters \cup Adders, ok \in BOOLEAN : TraceReread(i, ok))
    /\ WF_vars(\E i \in Adders, ok \in BOOLEAN : PutEventStep(i, ok))
    /\ WF_vars(\E i \in Adders, ok \in BOOLEAN : HandoffStep(i, ok))

(* A POST /api/traces without blocking has been answered with the trace. *)
NonBlockingAnswered(i) ==
    /\ tasks[i].kind \in {"submit", "create"}
    /\ ~tasks[i].blocking
    /\ tasks[i].response # Null
    /\ tasks[i].response.status = 201

(* C26: a non-blocking POST /api/traces stores the new trace with status    *)
(* 'pending' and returns it with status 'pending', without waiting for the  *)
(* agent processing it started to finish.                                   *)
C26_NonBlockingPending ==
    \A i \in Posters :
        NonBlockingAnswered(i) =>
            /\ tasks[i].stored = "pending"
            /\ tasks[i].response.data.status = "pending"
            /\ tasks[i].procAtResponse \notin {"done", "rejected"}

(* The prompt submission on its own does what C26 says. *)
C26_PromptSubmission ==
    \A i \in Posters :
        (NonBlockingAnswered(i) /\ tasks[i].kind = "submit") =>
            /\ tasks[i].stored = "pending"
            /\ tasks[i].response.data.status = "pending"
            /\ tasks[i].procAtResponse = "getTrace"

(* processTrace has been called for the trace of the submission. *)
Handed(i) == tasks[i].kind = "submit" /\ tasks[i].proc.pc # "none"

(* The trace of the submission has status 'completed' or 'failed'. *)
Finished(i) ==
    /\ tasks[i].id \in DOMAIN traces
    /\ traces[tasks[i].id].status \in {"completed", "failed"}

(* C27: every trace handed to processTrace eventually reaches status        *)
(* 'completed' or 'failed', so a submitted prompt never stays 'pending' or  *)
(* 'running' forever, and a blocking submission returns a trace whose       *)
(* status is 'completed' or 'failed'.                                       *)
C27_EventuallyFinished ==
    \A i \in Posters :
        /\ Handed(i) ~> Finished(i)
        /\ [](( /\ tasks[i].kind = "submit" /\ tasks[i].blocking
                /\ tasks[i].response # Null /\ tasks[i].response.status = 201)
              => /\ tasks[i].response.data # Null
                 /\ tasks[i].response.data.status \in {"completed", "failed"})

(* Whenever processTrace returns, the trace has status 'completed' or       *)
(* 'failed', and so has the trace a blocking submission returns.            *)
C27_FinishedWhenFulfilled ==
    \A i \in Posters :
        /\ (Handed(i) /\ tasks[i].proc.pc = "done") => Finished(i)
        /\ ( /\ tasks[i].kind = "submit" /\ tasks[i].blocking
             /\ tasks[i].response # Null /\ tasks[i].response.status = 201)
           => /\ tasks[i].response.data # Null
              /\ tasks[i].response.data.status \in {"completed", "failed"}

(* The events of a trace, as a set. *)
EventsOf(id) == {traces[id].events[k] : k \in 1..Len(traces[id].events)}

(* C28: adding an event never drops one: after any interleaving of event    *)
(* additions to the same trace (PUT /api/traces/[id], or the handoff        *)
(* logging of TraceService) the events of the trace contain every event     *)
(* that was added.  Stated for the trace that takes event additions only.   *)
C28_NoEventDropped ==
    \A i \in Adders :
        (tasks[i].added /\ tasks[i].id = SeedId) => tasks[i].event \in EventsOf(SeedId)

(* The additions of PUT /api/traces/[id] among themselves drop no event. *)
C28_PutEventsKept ==
    (\A j \in Adders : tasks[j].kind # "handoff") =>
        \A i \in Adders :
            (tasks[i].added /\ tasks[i].id = SeedId) => tasks[i].event \in EventsOf(SeedId)

-----------------------------------------------------------------------------
(* The name path of the resolver *)

(* Two strings are equal, ignoring case. *)
EqualIgnoringCase(a, b) ==
    /\ Len(a) = Len(b)
    /\ \A i \in 1..Len(a) : LowerChar(a[i]) = LowerChar(b[i])

(* The match fields of an entity. *)
MatchFields(kind, n) ==
    CASE kind = "team" -> {n.name, n.key}
      [] kind = "user" -> {n.name, n.displayName, n.email}
      [] kind = "project" -> {n.name}
      [] kind = "state" -> {n.name}

(* The positions of the collection whose entity matches the reference. *)
Matching(kind, nodes, ref) ==
    {i \in 1..Len(nodes) : \E field \in MatchFields(kind, nodes[i]) : EqualIgnoringCase(field, ref)}

(* Call c has returned from the scan of a collection the remote sent. *)
Scanned(c) ==
    /\ calls[c].pc = "done"
    /\ calls[c].step \in {"all", "teamStates"}
    /\ calls[c].resp.ok

(* C29: on the name path the result is the first entity, in the order of    *)
(* the remote collection, whose match field equals the reference ignoring   *)
(* case; a later matching entity is never returned, and the result is       *)
(* absence exactly when no entity of the collection matches.                *)
C29_FirstMatchWins ==
    \A c \in Callers :
        Scanned(c) =>
            LET f == calls[c]
                nodes == f.resp.body.nodes
                m == Matching(f.kind, nodes, f.ref)
            IN  /\ (f.result = Null) <=> (m = {})
                /\ m # {} => \E i \in m : /\ \A j \in m : i <= j
                                          /\ f.result = Pick(f.kind, nodes[i])

(* Reached: a scan of a collection with two matching entities, the second   *)
(* a different entity, for a team, a user and a state.                      *)
C29_WitnessFor(kind) ==
    \E c \in Callers :
        /\ Scanned(c)
        /\ calls[c].kind = kind
        /\ LET nodes == calls[c].resp.body.nodes
               m == Matching(kind, nodes, calls[c].ref)
           IN  /\ Cardinality(m) = 2
               /\ nodes[1].id # nodes[2].id
               /\ calls[c].result = Pick(kind, nodes[1])

C29_Witness == C29_WitnessFor(focus) /\ focus = "user"

(* The workflow states that belong to a team other than teamId, in any      *)
(* catalog of the remote, as resolveState returns them.                     *)
StatesOfOtherTeams(teamId) ==
    UNION {{Pick("state", cat["state"][k]) :
               k \in {j \in 1..Len(cat["state"]) : cat["state"][j].teamId # teamId}} :
           cat \in Catalogs \cup {CatalogV2}}

(* Call c has returned from a state resolution by name. *)
StateByName(c) ==
    /\ calls[c].pc = "done"
    /\ calls[c].kind = "state"
    /\ ~isUUID(calls[c].ref)

-----------------------------------------------------------------------------
(* One resolver instance serving resolutions and not-found messages from    *)
(* the same cache                                                           *)

(* The caller whose resolutions follow one another: the first. *)
Resolver == CHOOSE c \in Callers : \A d \in Callers : c <= d

NextCache ==
    \/ Tick
    \/ \E kind \in Kinds :
          \E in \in Inputs(kind) : StartResolve(Resolver, kind, in[1], in[2])
    \/ Reply(Resolver)
    \/ Resume(Resolver)
    \/ \E kind \in Kinds, v \in RequestedValues : StartMessage(kind, v)
    \/ ReplyMessage
    \/ ResumeMessage

SpecCache == Init /\ [][NextCache]_vars

(* This step writes the entry of key k: creates it or replaces its value or *)
(* its expiry.                                                              *)
Written(k) ==
    /\ k \in DOMAIN cache'
    /\ \/ k \notin DOMAIN cache
       \/ cache'[k] # cache[k]
       \/ cacheExpiry'[k] # cacheExpiry[k]

(* This step is the return of a resolution that found its entity, with key  *)
(* k.                                                                       *)
SuccessfulResolution(k) ==
    \E c \in Callers :
        /\ calls[c].pc = "ready" /\ calls'[c].pc = "done"
        /\ calls[c].key = k
        /\ calls[c].resp.ok
        /\ calls'[c].result # Null
        /\ cache'[k] = calls'[c].result

(* This step is the return of a catalog fetch that succeeded, with key k. *)
SuccessfulFetch(k) ==
    /\ msg.pc = "ready" /\ msg'.pc = "done"
    /\ msg.resp.ok
    /\ k = allKey(msg.kind)
    /\ cache'[k] = [nodes |-> msg'.list]

(* This step is the return of call c with absence. *)
EndsInAbsence(c) ==
    /\ calls[c].pc = "ready" /\ calls'[c].pc = "done"
    /\ calls'[c].result = Null

(* This step starts the resolution that follows one of the same reference   *)
(* that ended in absence.                                                   *)
ResolvedAgainAfterAbsence(c) ==
    /\ calls[c].pc = "done" /\ calls[c].result = Null
    /\ calls'[c] # calls[c]
    /\ calls'[c].key = calls[c].key

(* C31: a cache entry is created only by a successful resolution or a       *)
(* successful catalog fetch: a resolution that ends in absence (no match,   *)
(* or a remote error) and a catalog fetch that fails write nothing to the   *)
(* cache, so the next resolution of the same reference contacts the remote  *)
(* catalog again.                                                           *)
C31_OnlySuccessIsCached ==
    [][ /\ \A k \in DOMAIN cache' :
              Written(k) => SuccessfulResolution(k) \/ SuccessfulFetch(k)
        /\ \A c \in Callers :
              EndsInAbsence(c) => UNCHANGED <<cache, cacheExpiry>>
        /\ (msg.pc = "ready" /\ msg'.pc = "done" /\ ~msg.resp.ok) =>
              UNCHANGED <<cache, cacheExpiry>>
        /\ \A c \in Callers :
              ResolvedAgainAfterAbsence(c) =>
                  /\ calls'[c].pc = "await"
                  /\ Len(calls'[c].remote) = 1
      ]_vars

(* Reached: the second resolution has ended without a match and a catalog   *)
(* fetch has failed, and the cache holds neither key.                       *)
C31_Witness ==
    /\ started = 2
    /\ calls[Resolver].pc = "done"
    /\ calls[Resolver].step = "all" /\ calls[Resolver].resp.ok
    /\ calls[Resolver].result = Null
    /\ calls[Resolver].key \notin DOMAIN cache
    /\ msg.pc = "done" /\ msg.remote # <<>> /\ ~msg.resp.ok
    /\ allKey(msg.kind) \notin DOMAIN cache

(* The catalog entry of the kind is in the cache and has not expired. *)
CatalogLive(kind) ==
    /\ allKey(kind) \in DOMAIN cache
    /\ allKey(kind) \in DOMAIN cacheExpiry
    /\ now < cacheExpiry[allKey(kind)]

(* This step is a call of createResolutionError. *)
MessageCalled == msg.pc \in {"none", "done"} /\ msg' # msg

(* This step is the return of the fetch of createResolutionError. *)
MessageFetched == msg.pc = "ready" /\ msg'.pc = "done"

(* C32: the not-found message builder obtains the catalog through the       *)
(* cache: when a live catalog entry for the kind exists it performs zero    *)
(* remote calls, otherwise exactly one full-collection fetch, whose         *)
(* successful result is stored with the 5-minute expiry and serves later    *)
(* message builds for that kind.                                            *)
C32_MessageThroughCache ==
    [][ /\ MessageCalled =>
              IF CatalogLive(msg'.kind)
              THEN /\ msg'.pc = "done"
                   /\ msg'.remote = <<>>
                   /\ msg'.list = cache[allKey(msg'.kind)].nodes
                   /\ UNCHANGED <<cache, cacheExpiry>>
              ELSE /\ msg'.pc = "await"
                   /\ msg'.remote = <<AllEndpoint(msg'.kind)>>
        /\ MessageFetched =>
              /\ msg'.remote = <<AllEndpoint(msg.kind)>>
              /\ msg.resp.ok =>
                    /\ cache'[allKey(msg.kind)] =
                           [nodes |-> MapSeq(msg.kind, msg.resp.body.nodes)]
                    /\ cacheExpiry'[allKey(msg.kind)] = now + 5 * 60 * 1000
                    /\ msg'.list = cache'[allKey(msg.kind)].nodes
      ]_vars

(* Reached: a message built at a later time from the catalog an earlier     *)
(* build fetched and stored, with no remote call.                           *)
C32_Witness ==
    /\ msg.pc = "done"
    /\ msg.remote = <<>>
    /\ Len(msg.list) = 12
    /\ LastWrite(wlog, allKey(msg.kind)).at < now
    /\ LastWrite(wlog, allKey(msg.kind)).value = [nodes |-> msg.list]

-----------------------------------------------------------------------------
(* GET /api/traces/processNext                                              *)

(* The traces by createdAt, oldest first: the trace the store holds from    *)
(* the start was created before the trace of the POST request.              *)
CreatedOrder == <<SeedId, PostId>>

(* The clients that request processNext. *)
Pollers == {2, 3}

(* listTraces(options): the documents, those with status 'pending' only     *)
(* when options.onlyPending is set, ordered by createdAt ascending, cut to  *)
(* options.limit.                                                           *)
listTraces(tr, options) ==
    LET Kept(id) == /\ id \in DOMAIN tr
                    /\ options.onlyPending => tr[id].status = "pending"
        docs == SelectSeq(CreatedOrder, Kept)
    IN  SubSeq(docs, 1, IF Len(docs) < options.limit THEN Len(docs) ELSE options.limit)

(* The options the handler hands to listTraces: ListTracesRequestSchema     *)
(* has no onlyPending and the call passes cursor, limit, orderBy,           *)
(* orderDirection and fields.                                               *)
processNextOptions == [limit |-> 1, onlyPending |-> FALSE]

(* The json of the answer when the first listed trace is not pending. *)
NoUnprocessedTraces ==
    [status |-> 200, success |-> TRUE, data |-> Null, message |-> "No unprocessed traces found"]

(* Every request of the run is served by the same version of processTrace. *)
SameVersion(marksRunning) ==
    \A j \in DOMAIN tasks :
        tasks[j].kind \in {"submit", "next"} => tasks[j].proc.marksRunning = marksRunning

InitNext ==
    /\ now = Step
    /\ remote = CatalogV0
    /\ cache = <<>>
    /\ cacheExpiry = <<>>
    /\ wlog = <<>>
    /\ calls = [c \in Callers |-> Idle]
    /\ started = 0
    /\ focus = "team"
    /\ msg = NoMessage
    /\ op = NoOp
    /\ env = [API_KEY |-> S_testApiKey]
    /\ traces \in {<<>>, (SeedId :> NewTrace("completed")), (SeedId :> NewTrace("pending"))}
    /\ tasks = [i \in Posters \cup Pollers |-> IdleTask]

(* GET /api/traces/processNext, up to `await listTraces(...)`. *)
ProcessNext(i, marksRunning) ==
    /\ tasks[i].pc = "idle"
    /\ SameVersion(marksRunning)
    /\ tasks' = [tasks EXCEPT ![i] =
                    [IdleTask EXCEPT !.kind = "next", !.pc = "list",
                                     !.proc = [NoProc EXCEPT !.marksRunning = marksRunning]]]
    /\ UNCHANGED traces
    /\ UNCHANGED <<now, remote, cache, cacheExpiry, wlog, calls, started, focus, msg, op, env>>

(* listTraces settles: with no trace listed, or the listed trace not        *)
(* pending, the handler answers; otherwise it calls processTrace for it.    *)
TracesListed(i, ok) ==
    /\ tasks[i].kind = "next"
    /\ tasks[i].pc = "list"
    /\ LET result == listTraces(traces, processNextOptions)
           pending == {id \in DOMAIN traces : traces[id].status = "pending"}
       IN  tasks' = [tasks EXCEPT ![i] =
                IF ~ok
                THEN [@ EXCEPT !.pc = "done", !.response = traceRouteCatch]
                ELSE IF Len(result) = 0 \/ traces[result[1]].status # "pending"
                THEN [@ EXCEPT !.pc = "done", !.pendingSeen = pending,
                               !.response = NoUnprocessedTraces]
                ELSE [@ EXCEPT !.pc = "processing", !.pendingSeen = pending,
                               !.id = result[1],
                               !.proc = processTrace(@.marksRunning)]]
    /\ UNCHANGED traces
    /\ UNCHANGED <<now, remote, cache, cacheExpiry, wlog, calls, started, focus, msg, op, env>>

NextNext ==
    \/ \E i \in Posters, marksRunning \in BOOLEAN :
          SameVersion(marksRunning) /\ SubmitPrompt(i, FALSE, marksRunning)
    \/ \E i \in Posters, ok \in BOOLEAN : TraceStored(i, ok)
    \/ \E i \in Pollers, marksRunning \in BOOLEAN : ProcessNext(i, marksRunning)
    \/ \E i \in Pollers, ok \in BOOLEAN : TracesListed(i, ok)
    \/ \E i \in Posters \cup Pollers, ok \in BOOLEAN : ProcessStep(i, ok)
    \/ \E i \in Pollers : ProcessingSettled(i)
    \/ \E i \in Pollers, ok \in BOOLEAN : TraceReread(i, ok)

SpecNext == InitNext /\ [][NextNext]_vars

(* processNext has answered request i, not from its catch block. *)
NextAnswered(i) ==
    /\ tasks[i].kind = "next"
    /\ tasks[i].response # Null
    /\ tasks[i].response.status = 200

(* The oldest of a set of traces. *)
Oldest(ids) ==
    CreatedOrder[CHOOSE k \in 1..Len(CreatedOrder) :
                    /\ CreatedOrder[k] \in ids
                    /\ \A j \in 1..Len(CreatedOrder) : CreatedOrder[j] \in ids => k <= j]

(* C33: GET /api/traces/processNext processes the oldest trace whose status *)
(* is 'pending' whenever at least one pending trace exists, and answers     *)
(* 'No unprocessed traces found' only when no trace in the store is         *)
(* pending.                                                                 *)
C33_OldestPendingProcessed ==
    \A i \in Pollers :
        NextAnswered(i) =>
            IF tasks[i].pendingSeen = {}
            THEN tasks[i].response = NoUnprocessedTraces
            ELSE /\ tasks[i].response # NoUnprocessedTraces
                 /\ tasks[i].id = Oldest(tasks[i].pendingSeen)
                 /\ tasks[i].proc.pc = "done"

(* While the oldest trace of the store is pending, or the store is empty,   *)
(* processNext does what C33 says.                                          *)
C33_OldestOfAllPending ==
    \A i \in Pollers :
        (NextAnswered(i) /\ SeedId \in tasks[i].pendingSeen \cup (TraceIds \ DOMAIN traces)) =>
            IF tasks[i].pendingSeen = {}
            THEN tasks[i].response = NoUnprocessedTraces
            ELSE /\ tasks[i].response # NoUnprocessedTraces
                 /\ tasks[i].id = Oldest(tasks[i].pendingSeen)
                 /\ tasks[i].proc.pc = "done"

(* C38: a trace is processed by at most one processTrace run: concurrent    *)
(* calls of GET /api/traces/processNext, or a processNext call racing with  *)
(* the processing a non-blocking POST /api/traces started, never run the    *)
(* coordinator twice for the same trace.                                    *)
C38_OneRunPerTrace ==
    \A i, j \in Posters \cup Pollers :
        (tasks[i].ran /\ tasks[j].ran /\ tasks[i].id = tasks[j].id) => i = j

(* Two processNext requests never run the coordinator for the same trace    *)
(* when the second lists the traces after the first has marked the trace    *)
(* as running or finished it.                                               *)
C38_OneRunWhenSerial ==
    \A i, j \in Pollers :
        (tasks[i].ran /\ tasks[j].ran /\ tasks[i].id = tasks[j].id /\ i # j) =>
            tasks[i].id \in tasks[i].pendingSeen \cap tasks[j].pendingSeen

-----------------------------------------------------------------------------
(* The cache key as a function of kind, reference and context team          *)

(* References as callers write them, colons included. *)
KeyRefs ==
    {S_todo, S_todo \o S_colon \o S_global, S_todo \o S_colon \o UUID_1}

(* The context team: resolveState receives the teamId of the issue under    *)
(* update, or nothing; the other resolvers take no context.                 *)
KeyContexts(kind) == IF kind = "state" THEN {Undefined, UUID_1, UUID_2} ELSE {Undefined}

Triples == {t \in Kinds \X KeyRefs \X {Undefined, UUID_1, UUID_2} : t[3] \in KeyContexts(t[1])}

(* The entity the resolution of a triple found, named after the triple. *)
EntityOf(t) == [id |-> UUID_2, for |-> t]

(* The end of a resolution that found its entity: setCache(cacheKey, entity). *)
StoreResolved(t) ==
    /\ started < MaxStarts
    /\ LET st == setCache(Store, cacheKey(t[1], t[2], t[3]), EntityOf(t), now)
       IN  /\ cache' = st.data
           /\ cacheExpiry' = st.expiry
    /\ started' = started + 1
    /\ UNCHANGED <<now, remote, wlog, calls, focus, msg, op, env, traces, tasks>>

(* The start of a resolution: getCache(cacheKey). *)
LookUp(c, t) ==
    /\ started < MaxStarts
    /\ LET r == getCache(Store, cacheKey(t[1], t[2], t[3]), now)
       IN  /\ cache' = r.st.data
           /\ cacheExpiry' = r.st.expiry
           /\ calls' = [calls EXCEPT ![c] = [pc |-> "done", triple |-> t, result |-> r.value]]
    /\ started' = started + 1
    /\ UNCHANGED <<now, remote, wlog, focus, msg, op, env, traces, tasks>>

InitKey ==
    /\ now = Step
    /\ remote = CatalogV0
    /\ cache = <<>>
    /\ cacheExpiry = <<>>
    /\ wlog = <<>>
    /\ calls = [c \in Callers |-> Idle]
    /\ started = 0
    /\ focus = "state"
    /\ msg = NoMessage
    /\ op = NoOp
    /\ env = [DEFAULT_PROJECT_ID |-> Undefined]
    /\ traces = <<>>
    /\ tasks = <<>>

NextKey ==
    \/ Tick
    \/ \E t \in Triples : StoreResolved(t)
    \/ \E t \in Triples : LookUp(Resolver, t)

SpecKey == InitKey /\ [][NextKey]_vars

-----------------------------------------------------------------------------
(* References that differ in letter case                                    *)

(* Caller c starts a resolution in this step. *)
StartsNow(c) ==
    /\ started' = started + 1
    /\ calls[c].pc \in {"idle", "done"}
    /\ calls'[c] # calls[c]

(* The part of a key between the colon after the kind and the rest. *)
RefPart(f) ==
    SubSeq(f.key, Len(KindText(f.kind)) + 2, Len(KindText(f.kind)) + 1 + Len(f.ref))

(* A live entry is cached under a reference that differs from ref in letter *)
(* case only.                                                               *)
CaseVariantLive(kind, ref, ctx) ==
    \E in \in Inputs(kind) :
       /\ in[1] # ref
       /\ in[2] = ctx
       /\ toLowerCase(in[1]) = toLowerCase(ref)
       /\ LiveEntry(cacheKey(kind, in[1], ctx))

(* C35: cache keys are built from the reference exactly as the caller wrote *)
(* it, so references that differ only in letter case are cached             *)
(* independently: while one spelling is cached, the first resolution of the *)
(* other spelling still fetches the full collection, and storing its result *)
(* adds a second entry and leaves the first one alone.                      *)
C35_CaseVariantsApart ==
    [][\A c \in Callers :
          /\ StartsNow(c) =>
                /\ RefPart(calls'[c]) = calls'[c].ref
                /\ (/\ CaseVariantLive(calls'[c].kind, calls'[c].ref, calls'[c].ctx)
                    /\ ~LiveEntry(calls'[c].key)
                    /\ ~isUUID(calls'[c].ref)) =>
                        /\ calls'[c].pc = "await"
                        /\ calls'[c].remote = <<AllEndpoint(calls'[c].kind)>>
          /\ (calls[c].pc = "ready" /\ calls'[c].pc = "done" /\ calls'[c].result # Null) =>
                /\ calls[c].key \in DOMAIN cache'
                /\ cache'[calls[c].key] = calls'[c].result
                /\ \A k \in DOMAIN cache : k # calls[c].key =>
                      k \in DOMAIN cache' /\ cache'[k] = cache[k]
      ]_vars

(* Both spellings of the team name are cached, each under its own key, with *)
(* the same entity, and the second resolution fetched the collection too.   *)
C35_Witness ==
    /\ LiveEntry(cacheKey("team", S_ENGINEERING, Undefined))
    /\ LiveEntry(cacheKey("team", S_engineering, Undefined))
    /\ cache[cacheKey("team", S_ENGINEERING, Undefined)]
          = cache[cacheKey("team", S_engineering, Undefined)]
    /\ \E c \in Callers :
          /\ calls[c].pc = "done"
          /\ calls[c].ref = S_engineering
          /\ calls[c].remote = <<AllEndpoint("team")>>
          /\ LastWrite(wlog, cacheKey("team", S_ENGINEERING, Undefined)).at
                < LastWrite(wlog, calls[c].key).at

-----------------------------------------------------------------------------
(* Resolutions by name and the cached catalogs                              *)

(* The cached catalog of a kind, absent or with its expiry. *)
CatalogEntry(data, expiry, kind) ==
    IF allKey(kind) \in DOMAIN data
    THEN <<data[allKey(kind)], expiry[allKey(kind)]>>
    ELSE <<>>

(* The last resolution fetched the collection of the kind and got it. *)
CollectionFetched(kind) ==
    /\ calls[Resolver].pc = "done"
    /\ calls[Resolver].kind = kind
    /\ calls[Resolver].step \in {"all", "teamStates"}
    /\ calls[Resolver].resp.ok

(* C36: the name path of a resolution neither reads nor writes the catalog  *)
(* entries (all_teams, all_users, all_projects, all_states): no step of a   *)
(* resolution changes one, every uncached name resolution sends its own     *)
(* full-collection request even while a live catalog entry of the kind      *)
(* exists, and a not-found message built after a resolution fetched the     *)
(* collection sends its own request unless a catalog entry is live.         *)
C36_NamePathBypassesCatalog ==
    [][ /\ calls'[Resolver] # calls[Resolver] =>
              \A kind \in Kinds :
                  CatalogEntry(cache', cacheExpiry', kind) = CatalogEntry(cache, cacheExpiry, kind)
        /\ (/\ StartsNow(Resolver)
            /\ ~isUUID(calls'[Resolver].ref)
            /\ ~LiveEntry(calls'[Resolver].key)
            /\ CatalogLive(calls'[Resolver].kind)) =>
                /\ calls'[Resolver].pc = "await"
                /\ Len(calls'[Resolver].remote) = 1
                /\ calls'[Resolver].remote[1] \in {AllEndpoint(calls'[Resolver].kind), "team"}
        /\ (/\ MessageCalled
            /\ CollectionFetched(msg'.kind)
            /\ ~CatalogLive(msg'.kind)) =>
                /\ msg'.pc = "await"
                /\ msg'.remote = <<AllEndpoint(msg'.kind)>>
      ]_vars

(* Reached: a resolution by name waits for its own collection request while *)
(* the catalog of its kind, fetched by a message build, is live.            *)
C36_Witness ==
    /\ calls[Resolver].pc = "await"
    /\ calls[Resolver].step = "all"
    /\ calls[Resolver].remote = <<AllEndpoint(focus)>>
    /\ CatalogLive(focus)
    /\ msg.pc = "done"
    /\ msg.remote = <<AllEndpoint(focus)>>

-----------------------------------------------------------------------------
(* create without a project                                                 *)

(* A create, through the service or the POST route, is under way. *)
CreateOrPost == op.pc # "none" /\ op.type \in {"create", "post"}

(* Every resolution of the operation has settled and the checks have run. *)
ChecksDone ==
    /\ op.pc \notin {"resolving"}
    /\ \A kind \in Kinds : op.res[kind].pc \in {"done", "skipped"}

(* The project of the operation did not resolve: the default is not set,    *)
(* or the resolution of the reference returned null.                        *)
ProjectUnresolved == op.res["project"].result = Null

(* C37: when the payload of create has no projectId and the default project *)
(* is not configured or does not resolve, create reports no error about the *)
(* project and invokes the remote create primitive with the project unset;  *)
(* only an explicitly supplied projectId that fails to resolve makes create *)
(* fail with a project-not-found error.                                     *)
C37_DefaultProjectOptional ==
    CreateOrPost =>
        /\ (~Truthy(op.payload.projectId) /\ ProjectUnresolved) =>
              /\ \A i \in 1..Len(op.reported) : op.reported[i] # "project"
              /\ (/\ ChecksDone
                  /\ \A kind \in Kinds : ~op.res[kind].threw
                  /\ \A kind \in {"team", "user", "state"} : ~Missing(op, kind)) =>
                      /\ Len(op.mutation) = 1
                      /\ op.mutation[1].endpoint = "createIssue"
                      /\ op.mutation[1].projectId = Undefined
        /\ (\E i \in 1..Len(op.reported) : op.reported[i] = "project") =>
              /\ Truthy(op.payload.projectId)
              /\ op.res["project"].ref = op.payload.projectId
              /\ ProjectUnresolved
              /\ op.mutation = <<>>
              /\ op.outcome = "error" =>
                    StartsWith(op.error, NotFoundHead("project", op.payload.projectId))
        /\ (/\ Truthy(op.payload.projectId) /\ ProjectUnresolved /\ ChecksDone
            /\ \A kind \in Kinds : ~op.res[kind].threw
            /\ \A kind \in {"team", "user"} : ~Missing(op, kind)) =>
              op.reported = <<"project">>

(* Reached: a create without projectId whose configured default project did *)
(* not resolve ends well, with the project unset in the request.            *)
C37_Witness ==
    /\ CreateOrPost
    /\ op.payload.projectId = Undefined
    /\ env.DEFAULT_PROJECT_ID = S_BACKEND
    /\ op.res["project"].pc = "done"
    /\ ProjectUnresolved
    /\ op.outcome = "ok"
    /\ op.mutation[1].projectId = Undefined

-----------------------------------------------------------------------------
(* The two maps of the cache                                                *)

(* C39: in every reachable state of a resolver cache the map of values and  *)
(* the map of expiry times have the same key set: no key has a value        *)
(* without an expiry or an expiry without a value, after any sequence of    *)
(* setCache and getCache calls.                                             *)
C39_SameKeySet == DOMAIN cache = DOMAIN cacheExpiry

(* Reached: a lookup has evicted an expired entry that an earlier           *)
(* resolution stored, from both maps.                                       *)
C39_Witness ==
    \E c \in Callers :
       /\ calls[c].pc = "await"
       /\ calls[c].evicted
       /\ calls[c].key \in DOMAIN wlog
       /\ calls[c].key \notin DOMAIN cache
       /\ calls[c].key \notin DOMAIN cacheExpiry

====
